---- MODULE Spec2Model ----
(***************************************************************************)
(* Model of the deployment-step engine of                                  *)
(* agent_build/tools/environment_deployments/deployments.py:               *)
(* DeploymentStep (checksum, id, run, _run_in_docker) and                  *)
(* ShellScriptDeploymentStep (constructor, _run_locally,                   *)
(* _run_in_docker_impl).                                                   *)
(*                                                                         *)
(* Byte strings are sequences of small naturals, so that feeding two       *)
(* strings to a hash one after the other is their concatenation.  SHA-256  *)
(* is taken to be collision free: a digest is represented by the byte      *)
(* stream that was hashed.                                                 *)
(***************************************************************************)
EXTENDS Integers, Sequences, FiniteSets, TLC

VARIABLES
    files,              \* content of every file under SOURCE_ROOT: path -> bytes
    IN_CICD,            \* common.IN_CICD, fixed for the life of the process
    base_docker_image,  \* DeploymentStep.base_docker_image, set by __init__
    cache_directory,    \* DeploymentStep.cache_directory, set by __init__ (an id)
    output_directory,   \* DeploymentStep.output_directory, set by __init__ (an id)
    images,             \* names of the images in the local docker namespace
    cache,              \* files under DEPLOYMENT_CACHE_DIR: <<directory, file name>>
    active,             \* the processes that exist
    stack,              \* per process: the frames of the run() calls in progress
    cur,                \* per process: the top-level call in progress or last finished
    prevRun,            \* per process: the top-level call before cur
    trace,              \* per process: external operations of the call in cur
    edited,             \* paths modified since the last top-level call started
    last_edit,          \* the last modification: its path and the checksums before it
    nruns,              \* number of top-level calls started
    nedits,             \* number of file modifications made
    dstate,             \* Deployment.deploy() in progress: deployment, loop index
    dtrace,             \* the step.run() calls and returns of that deploy()
    IN_DOCKER,          \* common.IN_DOCKER of the process that was started
    bstack,             \* the frames of the CacheableBuilder.build() calls in progress
    bcur,               \* the top-level build() in progress or last finished
    btrace,             \* operations of the build() in bcur
    out,                \* files in each builder's output_path: who wrote them
    ninv,               \* number of build() invocations of the build() in bcur
    regenerated,        \* a command line regenerated on its own
    ALL_DEPLOYMENTS,    \* the module's registry: deployment name -> Deployment
    registered,         \* the last Deployment.__init__(): its object and outcome
    intermediate,       \* the intermediate container and image: do they exist
    faults,             \* processes one of whose docker commands failed on its own
    store,              \* the files of one cache round trip of a step
    failure             \* one failed action and the exception made of it

\* The variables of Deployment.deploy() and of CacheableBuilder.build().
dvars == <<dstate, dtrace>>
bvars == <<IN_DOCKER, bstack, bcur, btrace, out, ninv, regenerated>>

\* The registry of the deployments, the intermediate container and image of
\* _run_in_docker_impl(), the files of the cache round trip and the failure
\* of an action.
xvars == <<ALL_DEPLOYMENTS, registered, intermediate, faults, store, failure>>

vars == <<files, IN_CICD, base_docker_image, cache_directory, output_directory,
          images, cache, active, stack, cur, prevRun, trace, edited, last_edit,
          nruns, nedits, dstate, dtrace, IN_DOCKER, bstack, bcur, btrace, out,
          ninv, regenerated, ALL_DEPLOYMENTS, registered, intermediate, faults,
          store, failure>>

(***************************************************************************)
(* Bounds                                                                  *)
(***************************************************************************)
MaxRuns == 2
MaxEdits == 1
MaxInputs == 2
MaxRegistrations == 3
MaxLines == 32
MaxCacheOps == 3

None == "None"
Procs == {1, 2}

(***************************************************************************)
(* The source tree: paths and the contents a file may have.                *)
(***************************************************************************)
F1 == <<1>>
F2 == <<2>>
SCRIPT == <<3>>
STEP_RUNNER == <<4>>
Paths == {F1, F2, SCRIPT, STEP_RUNNER}
Contents == {<<8>>, <<8, 9>>}
\* The files that are modified between calls: the tracked sources.
Editable == {F1, F2}
InitFiles == [p \in Paths |-> <<8>>]
NoPath == <<>>

\* A glob pattern is written as the set of paths it matches.
G1 == {F1}
G2 == {F2}

\* Environment-variable names and values.
K == <<20>>
L == <<21>>

RECURSIVE LexLess(_, _)
LexLess(a, b) ==
    IF a = <<>> THEN b # <<>>
    ELSE IF b = <<>> THEN FALSE
    ELSE IF Head(a) # Head(b) THEN Head(a) < Head(b)
    ELSE LexLess(Tail(a), Tail(b))

RECURSIVE SetToSortedSeq(_)
SetToSortedSeq(S) ==
    IF S = {} THEN <<>>
    ELSE LET m == CHOOSE x \in S : \A y \in S \ {x} : LexLess(x, y)
         IN  <<m>> \o SetToSortedSeq(S \ {m})

RECURSIVE Concat(_)
Concat(ss) == IF ss = <<>> THEN <<>> ELSE Head(ss) \o Concat(Tail(ss))

(***************************************************************************)
(* ShellScriptDeploymentStep.__init__: the globs given by the caller are   *)
(* extended by the script and by step_runner.sh.                           *)
(***************************************************************************)
ShellScriptDeploymentStep(name, script_path, tracked_file_globs, previous_step, environment_variables) ==
    [name |-> name,
     script_path |-> script_path,
     tracked_file_globs |-> tracked_file_globs \o <<{script_path}, {STEP_RUNNER}>>,
     previous |-> previous_step,
     environment_variables |-> environment_variables]

\* The steps declared at process start.  "previous" is None, the name of a
\* public docker image, or a step.
PublicNames == {"centos:6", "centos:7"}

\* A docker image name is written as a pair: the text before the digest and
\* the digest.  The name of a public image has no digest; NoImage is None.
ImageName(text) == <<text, <<>> >>
PublicImages == {ImageName(n) : n \in PublicNames}
NoImage == ImageName(None)

StepTable ==
    [A  |-> ShellScriptDeploymentStep("a", SCRIPT, <<G1>>, None, <<>>),
     B  |-> ShellScriptDeploymentStep("b", SCRIPT, <<G2>>, "A", <<>>),
     A6 |-> ShellScriptDeploymentStep("a", SCRIPT, <<G1>>, "centos:6", <<>>),
     A7 |-> ShellScriptDeploymentStep("a", SCRIPT, <<G1>>, "centos:7", <<>>),
     B6 |-> ShellScriptDeploymentStep("b", SCRIPT, <<G2>>, "A6", <<>>),
     E1 |-> ShellScriptDeploymentStep("e", SCRIPT, <<G1, G2>>, "centos:6",
                                      << <<K, <<1>> >>, <<L, <<2>> >> >>),
     E2 |-> ShellScriptDeploymentStep("e", SCRIPT, <<G1, G2>>, "centos:6",
                                      << <<L, <<2>> >>, <<K, <<1>> >> >>),
     E3 |-> ShellScriptDeploymentStep("e", SCRIPT, <<G1, G2>>, "centos:6",
                                      << <<K, <<3>> >>, <<L, <<2>> >> >>),
     E4 |-> ShellScriptDeploymentStep("e", SCRIPT, <<G2, G1>>, "centos:6",
                                      << <<K, <<1>> >>, <<L, <<2>> >> >>)]

StepIds == DOMAIN StepTable

\* DeploymentStep.__init__, lines 120-132: previous_step is a step only when
\* the argument is a DeploymentStep.
previous_step(s) ==
    IF StepTable[s].previous \in StepIds THEN StepTable[s].previous ELSE None

\* FilesChecksumTracker._original_files: the files matched by the globs,
\* in sorted order, resolved once per step.
OriginalFiles ==
    [s \in StepIds |->
       LET globs == StepTable[s].tracked_file_globs
       IN  SetToSortedSeq(UNION {globs[i] : i \in DOMAIN globs})]

original_files(s) == OriginalFiles[s]

\* sorted(self.environment_variables.keys())
sorted_env_names(s) ==
    LET env == StepTable[s].environment_variables
    IN  SetToSortedSeq({env[i][1] : i \in DOMAIN env})

env_value(s, name) ==
    LET env == StepTable[s].environment_variables
        i == CHOOSE j \in DOMAIN env : env[j][1] = name
    IN  env[i][2]

\* hashlib.sha256().hexdigest() of the bytes fed by update().
Sha256(data) == data

(***************************************************************************)
(* DeploymentStep.checksum.  The first hash object receives the previous   *)
(* step's checksum and the sorted environment variables; line 211 then     *)
(* binds sha256 to a new hash object, and the digest returned is the one   *)
(* of the second object, which receives the files only.                    *)
(***************************************************************************)
\* Variant: line 214 (the file's bytes) is left out of the hash.
checksum_paths_only(s) ==
    LET fs == original_files(s)
    IN  Sha256(Concat([i \in DOMAIN fs |-> fs[i]]))

\* Variant: the files are hashed glob by glob, in the order of declaration.
checksum_declared_order(s) ==
    LET globs == StepTable[s].tracked_file_globs
        fs == Concat([i \in DOMAIN globs |-> SetToSortedSeq(globs[i])])
    IN  Sha256(Concat([i \in DOMAIN fs |-> fs[i] \o files[fs[i]]]))

RECURSIVE checksum(_)
checksum(s) ==
    LET names == sorted_env_names(s)
        first == (IF previous_step(s) # None THEN checksum(previous_step(s)) ELSE <<>>)
                 \o Concat([i \in DOMAIN names |-> names[i] \o env_value(s, names[i])])
        fs == original_files(s)
        second == Concat([i \in DOMAIN fs |-> fs[i] \o files[fs[i]]])
    IN  Sha256(second)

\* f"{self.name}_{self.checksum}": the digest has a fixed length, so the
\* string determines both parts.
MakeId(name, digest) == <<name, digest>>

id(s) == MakeId(StepTable[s].name, checksum(s))

result_image_name(s) == id(s)

RECURSIVE initial_docker_image(_)
initial_docker_image(s) ==
    IF previous_step(s) = None THEN base_docker_image[s]
    ELSE initial_docker_image(previous_step(s))

\* Variant: the step looks at its own base image only, not at the root's.
runs_in_docker_own_base(s) == base_docker_image[s] # NoImage

runs_in_docker(s) == initial_docker_image(s) # NoImage

(***************************************************************************)
(* Initial state: the steps have just been constructed from the source     *)
(* tree; the docker namespace is empty (a fresh machine); the cache root   *)
(* may hold image files saved by earlier runs under the steps' ids.        *)
(***************************************************************************)
DockerSteps == {s \in StepIds : runs_in_docker(s)}

NoCall == [step |-> None, status |-> "none", error |-> None, fresh |-> FALSE]
NoPrev == [step |-> None, status |-> "none", edited |-> {}, nact |-> 0, fresh |-> FALSE]

\* No deploy() and no build() has been called.
NoDeploy == [deployment |-> None, k |-> 0, status |-> "none"]
NoBuild == [builder |-> None, status |-> "none", error |-> None, locally |-> FALSE, values |-> <<>>, inv |-> 0]

\* No command line has been regenerated.
NoResult == [raised |-> FALSE, command_args |-> <<>>]
NoRegeneration == [NAME |-> None, INPUT |-> <<>>, input_values |-> <<>>, result |-> NoResult]

\* No Deployment has been constructed, no intermediate container or image
\* exists, no cache round trip and no failure of an action is looked at.
NoRegistry == [name \in {} |-> None]
NoRegistration == [name |-> None, object |-> 0, raised |-> None, before |-> NoRegistry]
NoIntermediate == [container |-> FALSE, image |-> FALSE]
\* The paths of a cache round trip: the entries of the step's cache directory
\* and of the current working directory, a file and a directory to save, and
\* a destination.  A path holds nothing, a file or a directory.
CacheKeys == {"k1", "k2"}
SourcePaths == {<<"work", "file">>, <<"work", "dir">>}
DestPath == <<"work", "dest">>
CachePaths ==
    {<<"cache", k>> : k \in CacheKeys} \cup {<<"cwd", k>> : k \in CacheKeys}
        \cup SourcePaths \cup {DestPath}
Absent == [kind |-> "absent", data |-> 0]
NoCacheCall == [op |-> "none", key |-> None, path |-> <<>>, result |-> None, raised |-> None]
NoStore ==
    [fs |-> [path \in CachePaths |->
               IF path = <<"work", "file">> THEN [kind |-> "file", data |-> 1]
               ELSE IF path = <<"work", "dir">> THEN [kind |-> "dir", data |-> 2]
               ELSE Absent],
     before |-> [path \in CachePaths |-> Absent],
     saved |-> [k \in CacheKeys |-> Absent],
     last |-> NoCacheCall,
     nops |-> 0]
NoText == [kind |-> "None", lines |-> <<>>, valid |-> TRUE]
NoException == [type |-> None, stdout |-> NoText, stderr |-> NoText,
                message |-> [stdout |-> <<>>, stderr |-> <<>>]]
NoFailure == [origin |-> None, stdout |-> NoText, stderr |-> NoText, raised |-> NoException]

InitOther ==
    /\ ALL_DEPLOYMENTS = NoRegistry
    /\ registered = NoRegistration
    /\ intermediate = NoIntermediate
    /\ faults = {}
    /\ store = NoStore
    /\ failure = NoFailure

InitSteps ==
    /\ files = InitFiles
    /\ IN_CICD \in BOOLEAN
    /\ base_docker_image =
         [s \in StepIds |->
            IF StepTable[s].previous \in StepIds
            THEN result_image_name(StepTable[s].previous)
            ELSE ImageName(StepTable[s].previous)]
    /\ cache_directory = [s \in StepIds |-> id(s)]
    /\ output_directory = [s \in StepIds |-> id(s)]
    /\ images = {}
    /\ cache \in {{}, {<<id(s), id(s)>> : s \in DockerSteps}}
    /\ active = {1}
    /\ stack = [p \in Procs |-> <<>>]
    /\ cur = [p \in Procs |-> NoCall]
    /\ prevRun = [p \in Procs |-> NoPrev]
    /\ trace = [p \in Procs |-> <<>>]
    /\ edited = {}
    /\ last_edit = [path |-> NoPath, checksum |-> [s \in StepIds |-> checksum(s)]]
    /\ nruns = 0
    /\ nedits = 0

\* Nothing of a builder exists before the first build(): no output directory
\* has a file.  BuilderNames is the set of the NAMEs of the builders.
BuilderNames == {"x", "y", "v", "w"}

InitBuilders ==
    /\ InitOther
    /\ bstack = <<>>
    /\ bcur = NoBuild
    /\ btrace = <<>>
    /\ out = [n \in BuilderNames |-> {}]
    /\ ninv = 0
    /\ regenerated = NoRegeneration

Init ==
    /\ InitSteps
    /\ dstate = NoDeploy
    /\ dtrace = <<>>
    /\ IN_DOCKER = FALSE
    /\ InitBuilders

(***************************************************************************)
(* Frames and helpers                                                      *)
(***************************************************************************)
Frame(s) ==
    [step |-> s, pc |-> "run", save_to_cache |-> FALSE, prev_returned |-> FALSE,
     pending |-> None]

Top(p) == stack[p][Len(stack[p])]

AtPc(p, pc) == p \in active /\ stack[p] # <<>> /\ Top(p).pc = pc

Event(s, ev) == [step |-> s, ev |-> ev]

\* Number of events ev of step s in a trace.
RECURSIVE Count(_, _, _)
Count(tr, s, ev) ==
    IF tr = <<>> THEN 0
    ELSE (IF Head(tr) = Event(s, ev) THEN 1 ELSE 0) + Count(Tail(tr), s, ev)

\* The own part of run() starts at line 226: the choice of run_func, which
\* _run_function_in_isolated_source_directory (FilesChecksumTracker) calls on
\* a copy of the tracked files.
run_func(s) == IF runs_in_docker(s) THEN "images_q" ELSE "locally"

\* The stack after the top frame has returned normally: the caller, which
\* waits in line 224, goes on with line 226.
Returned(stk) ==
    LET rest == SubSeq(stk, 1, Len(stk) - 1)
        caller == rest[Len(rest)]
    IN  IF rest = <<>> THEN rest
        ELSE [rest EXCEPT ![Len(rest)] =
                [caller EXCEPT !.pc = run_func(caller.step), !.prev_returned = TRUE]]

\* The top frame returns normally.
Return(p) ==
    /\ stack' = [stack EXCEPT ![p] = Returned(@)]
    /\ cur' = IF Len(stack[p]) = 1
              THEN [cur EXCEPT ![p].status = "ok"]
              ELSE cur

\* An exception leaves every frame: run() has no handler.
Raise(p, error) ==
    /\ stack' = [stack EXCEPT ![p] = <<>>]
    /\ cur' = [cur EXCEPT ![p].status = "error", ![p].error = error]

Log(p, s, ev) == trace' = [trace EXCEPT ![p] = Append(@, Event(s, ev))]

Idle == \A p \in Procs : stack[p] = <<>>

cached_image_path(s) == <<cache_directory[s], result_image_name(s)>>

(***************************************************************************)
(* Actions                                                                 *)
(***************************************************************************)
\* A caller invokes step.run() (lines 990-993, or any other caller).
StartRun(p, s) ==
    /\ p \in active
    /\ stack[p] = <<>>
    /\ nruns < MaxRuns
    /\ nruns' = nruns + 1
    /\ stack' = [stack EXCEPT ![p] = <<Frame(s)>>]
    /\ prevRun' = [prevRun EXCEPT ![p] =
                     [step |-> cur[p].step, status |-> cur[p].status,
                      edited |-> edited,
                      nact |-> Count(trace[p], cur[p].step, "impl")
                               + Count(trace[p], cur[p].step, "script"),
                      fresh |-> cur[p].fresh]]
    /\ cur' = [cur EXCEPT ![p] =
                 [step |-> s, status |-> "running", error |-> None,
                  fresh |-> /\ result_image_name(s) \notin images
                            /\ cached_image_path(s) \notin cache]]
    /\ trace' = [trace EXCEPT ![p] = <<>>]
    /\ edited' = {}
    /\ UNCHANGED <<files, IN_CICD, base_docker_image, cache_directory,
                   output_directory, images, cache, active, last_edit, nedits>>
    /\ UNCHANGED <<dvars, bvars, xvars>>

\* Variant: the predecessor is run only when the own image is missing.
run_previous_on_demand(p) ==
    /\ AtPc(p, "run")
    /\ LET s == Top(p).step
           n == Len(stack[p])
       IN  IF previous_step(s) # None /\ result_image_name(s) \notin images
           THEN stack' = [stack EXCEPT ![p] =
                            Append([@ EXCEPT ![n].pc = "prev"], Frame(previous_step(s)))]
           ELSE stack' = [stack EXCEPT ![p][n].pc = run_func(s)]
    /\ UNCHANGED <<files, IN_CICD, base_docker_image, cache_directory,
                   output_directory, images, cache, active, cur, prevRun, trace,
                   edited, last_edit, nruns, nedits>>
    /\ UNCHANGED <<dvars, bvars, xvars>>

\* DeploymentStep.run, lines 223-231.
run(p) ==
    /\ AtPc(p, "run")
    /\ LET s == Top(p).step
           n == Len(stack[p])
       IN  IF previous_step(s) # None
           THEN stack' = [stack EXCEPT ![p] =
                            Append([@ EXCEPT ![n].pc = "prev"], Frame(previous_step(s)))]
           ELSE stack' = [stack EXCEPT ![p][n].pc = run_func(s)]
    /\ UNCHANGED <<files, IN_CICD, base_docker_image, cache_directory,
                   output_directory, images, cache, active, cur, prevRun, trace,
                   edited, last_edit, nruns, nedits>>
    /\ UNCHANGED <<dvars, bvars, xvars>>

\* Variant: the result of the image query is ignored.
docker_images_q_no_skip(p) ==
    /\ AtPc(p, "images_q")
    /\ LET s == Top(p).step
           n == Len(stack[p])
       IN  /\ Log(p, s, "images_q")
           /\ IF FALSE
              THEN Return(p)
              ELSE /\ stack' = [stack EXCEPT ![p][n] =
                                  [@ EXCEPT !.save_to_cache = FALSE,
                                            !.pc = IF IN_CICD THEN "is_file" ELSE "impl"]]
                   /\ UNCHANGED cur
    /\ UNCHANGED <<files, IN_CICD, base_docker_image, cache_directory,
                   output_directory, images, cache, active, prevRun,
                   edited, last_edit, nruns, nedits>>
    /\ UNCHANGED <<dvars, bvars, xvars>>
\* Variant: in CI/CD the cache is consulted before the image query decides.
docker_images_q_cache_first(p) ==
    /\ AtPc(p, "images_q")
    /\ LET s == Top(p).step
           n == Len(stack[p])
       IN  /\ Log(p, s, "images_q")
           /\ IF result_image_name(s) \in images /\ ~IN_CICD
              THEN Return(p)
              ELSE /\ stack' = [stack EXCEPT ![p][n] =
                                  [@ EXCEPT !.save_to_cache = FALSE,
                                            !.pc = IF IN_CICD THEN "is_file" ELSE "impl"]]
                   /\ UNCHANGED cur
    /\ UNCHANGED <<files, IN_CICD, base_docker_image, cache_directory,
                   output_directory, images, cache, active, prevRun,
                   edited, last_edit, nruns, nedits>>
    /\ UNCHANGED <<dvars, bvars, xvars>>
\* Variant: the cache is consulted outside CI/CD too.
docker_images_q_cache_always(p) ==
    /\ AtPc(p, "images_q")
    /\ LET s == Top(p).step
           n == Len(stack[p])
       IN  /\ Log(p, s, "images_q")
           /\ IF result_image_name(s) \in images
              THEN Return(p)
              ELSE /\ stack' = [stack EXCEPT ![p][n] =
                                  [@ EXCEPT !.save_to_cache = FALSE,
                                            !.pc = "is_file"]]
                   /\ UNCHANGED cur
    /\ UNCHANGED <<files, IN_CICD, base_docker_image, cache_directory,
                   output_directory, images, cache, active, prevRun,
                   edited, last_edit, nruns, nedits>>
    /\ UNCHANGED <<dvars, bvars, xvars>>
\* _run_in_docker, lines 240-253: 'docker images -q <result image name>'.
\* When the image exists the step returns; otherwise lines 255-258 follow.
docker_images_q(p) ==
    /\ AtPc(p, "images_q")
    /\ LET s == Top(p).step
           n == Len(stack[p])
       IN  /\ Log(p, s, "images_q")
           /\ IF result_image_name(s) \in images
              THEN Return(p)
              ELSE /\ stack' = [stack EXCEPT ![p][n] =
                                  [@ EXCEPT !.save_to_cache = FALSE,
                                            !.pc = IF IN_CICD THEN "is_file" ELSE "impl"]]
                   /\ UNCHANGED cur
    /\ UNCHANGED <<files, IN_CICD, base_docker_image, cache_directory,
                   output_directory, images, cache, active, prevRun,
                   edited, last_edit, nruns, nedits>>
    /\ UNCHANGED <<dvars, bvars, xvars>>

\* _run_in_docker, lines 258-270: in CI/CD, is the image file in the cache?
cached_image_is_file(p) ==
    /\ AtPc(p, "is_file")
    /\ LET s == Top(p).step
           n == Len(stack[p])
       IN  /\ Log(p, s, "is_file")
           /\ IF cached_image_path(s) \in cache
              THEN stack' = [stack EXCEPT ![p][n].pc = "load"]
              ELSE stack' = [stack EXCEPT ![p][n] =
                               [@ EXCEPT !.save_to_cache = TRUE, !.pc = "impl"]]
    /\ UNCHANGED <<files, IN_CICD, base_docker_image, cache_directory,
                   output_directory, images, cache, active, cur, prevRun,
                   edited, last_edit, nruns, nedits>>
    /\ UNCHANGED <<dvars, bvars, xvars>>

\* Variant: the return of line 266 is missing.
docker_load_no_return(p) ==
    /\ AtPc(p, "load")
    /\ LET s == Top(p).step
           n == Len(stack[p])
       IN  /\ Log(p, s, "load")
           /\ images' = images \cup {cached_image_path(s)[2]}
           /\ stack' = [stack EXCEPT ![p][n].pc = "impl"]
    /\ UNCHANGED <<files, IN_CICD, base_docker_image, cache_directory,
                   output_directory, cache, active, cur, prevRun, edited,
                   last_edit, nruns, nedits>>
    /\ UNCHANGED <<dvars, bvars, xvars>>

\* _run_in_docker, lines 265-266: 'docker load -i <cached image path>', then
\* return.  The file holds the image that was saved under the file's name.
docker_load(p) ==
    /\ AtPc(p, "load")
    /\ LET s == Top(p).step
       IN  /\ Log(p, s, "load")
           /\ images' = images \cup {cached_image_path(s)[2]}
           /\ Return(p)
    /\ UNCHANGED <<files, IN_CICD, base_docker_image, cache_directory,
                   output_directory, cache, active, prevRun, edited, last_edit, nruns, nedits>>
    /\ UNCHANGED <<dvars, bvars, xvars>>

\* _run_in_docker line 277 and ShellScriptDeploymentStep._run_in_docker_impl:
\* the step's action.  'docker create' needs the base image (a public image
\* can be pulled) and fails with CalledProcessError without it; the script
\* run by build_stage may fail, which raises DeploymentStepError; on success
\* the result image exists.  Lines 279-287 follow a success.
run_in_docker_impl(p, script_ok) ==
    /\ AtPc(p, "impl")
    /\ LET s == Top(p).step
           n == Len(stack[p])
       IN  /\ Log(p, s, "impl")
           /\ IF base_docker_image[s] \notin PublicImages \cup images
              THEN /\ Raise(p, "CalledProcessError")
                   /\ UNCHANGED images
              ELSE IF ~script_ok
              THEN /\ Raise(p, "DeploymentStepError")
                   /\ UNCHANGED images
              ELSE /\ images' = images \cup {result_image_name(s)}
                   /\ IF IN_CICD /\ Top(p).save_to_cache
                      THEN /\ stack' = [stack EXCEPT ![p][n].pc = "save"]
                           /\ UNCHANGED cur
                      ELSE Return(p)
    /\ UNCHANGED <<files, IN_CICD, base_docker_image, cache_directory,
                   output_directory, cache, active, prevRun, edited, last_edit, nruns, nedits>>
    /\ UNCHANGED <<dvars, bvars, xvars>>

\* _run_in_docker, lines 279-287: save_docker_image into the cache directory.
save_docker_image(p) ==
    /\ AtPc(p, "save")
    /\ LET s == Top(p).step
       IN  /\ Log(p, s, "save")
           /\ cache' = cache \cup {cached_image_path(s)}
           /\ Return(p)
    /\ UNCHANGED <<files, IN_CICD, base_docker_image, cache_directory,
                   output_directory, images, active, prevRun, edited, last_edit, nruns, nedits>>
    /\ UNCHANGED <<dvars, bvars, xvars>>

\* Variant: a script that failed is run again.
run_locally_retry(p, script_ok) ==
    /\ AtPc(p, "locally")
    /\ LET s == Top(p).step
       IN  /\ Log(p, s, "script")
           /\ IF script_ok THEN Return(p) ELSE UNCHANGED <<stack, cur>>
    /\ UNCHANGED <<files, IN_CICD, base_docker_image, cache_directory,
                   output_directory, images, cache, active, prevRun,
                   edited, last_edit, nruns, nedits>>
    /\ UNCHANGED <<dvars, bvars, xvars>>

\* ShellScriptDeploymentStep._run_locally: the script runs on the host.
run_locally(p, script_ok) ==
    /\ AtPc(p, "locally")
    /\ LET s == Top(p).step
       IN  /\ Log(p, s, "script")
           /\ IF script_ok THEN Return(p) ELSE Raise(p, "DeploymentStepError")
    /\ UNCHANGED <<files, IN_CICD, base_docker_image, cache_directory,
                   output_directory, images, cache, active, prevRun,
                   edited, last_edit, nruns, nedits>>
    /\ UNCHANGED <<dvars, bvars, xvars>>

\* Between two calls somebody changes the content of a file of the source tree.
ModifyFile(f, c) ==
    /\ Idle
    /\ nedits < MaxEdits
    /\ files[f] # c
    /\ files' = [files EXCEPT ![f] = c]
    /\ edited' = edited \cup {f}
    /\ last_edit' = [path |-> f, checksum |-> [s \in StepIds |-> checksum(s)]]
    /\ nedits' = nedits + 1
    /\ UNCHANGED <<IN_CICD, base_docker_image, cache_directory, output_directory,
                   images, cache, active, stack, cur, prevRun, trace, nruns>>
    /\ UNCHANGED <<dvars, bvars, xvars>>

Next ==
    \/ \E p \in Procs, s \in StepIds : StartRun(p, s)
    \/ \E p \in Procs : run(p)
    \/ \E p \in Procs : docker_images_q(p)
    \/ \E p \in Procs : cached_image_is_file(p)
    \/ \E p \in Procs : docker_load(p)
    \/ \E p \in Procs, ok \in BOOLEAN : run_in_docker_impl(p, ok)
    \/ \E p \in Procs : save_docker_image(p)
    \/ \E p \in Procs, ok \in BOOLEAN : run_locally(p, ok)
    \/ \E f \in Editable, c \in Contents : ModifyFile(f, c)

Spec == Init /\ [][Next]_vars

(***************************************************************************)
(* Deployment: a named list of chained steps (lines 561-640).  __init__    *)
(* makes every step the previous_step of the next one and gives the base   *)
(* docker image, if any, to the first.                                     *)
(***************************************************************************)
Deployments ==
    [D1 |-> [base_docker_image |-> None, steps |-> <<"A", "B">>],
     D6 |-> [base_docker_image |-> "centos:6", steps |-> <<"A6", "B6">>]]

DeploymentIds == DOMAIN Deployments

\* A caller invokes deployment.deploy().
StartDeploy(p, d) ==
    /\ p \in active
    /\ stack[p] = <<>>
    /\ dstate.status # "running"
    /\ nruns < MaxRuns
    /\ nruns' = nruns + 1
    /\ dstate' = [deployment |-> d, k |-> 0, status |-> "running"]
    /\ dtrace' = <<>>
    /\ trace' = [trace EXCEPT ![p] = <<>>]
    /\ cur' = [cur EXCEPT ![p] = NoCall]
    /\ UNCHANGED <<files, IN_CICD, base_docker_image, cache_directory,
                   output_directory, images, cache, active, stack, prevRun,
                   edited, last_edit, nedits>>
    /\ UNCHANGED <<bvars, xvars>>

\* Variant: the loop walks the list from its end.
deploy_reversed(p) ==
    /\ p \in active
    /\ dstate.status = "running"
    /\ stack[p] = <<>>
    /\ dstate.k = 0 \/ cur[p].status = "ok"
    /\ LET steps == Deployments[dstate.deployment].steps
           k == dstate.k
           returned == IF k = 0 THEN <<>> ELSE << <<"return", steps[Len(steps) + 1 - k]>> >>
       IN  IF k = Len(steps)
           THEN /\ dstate' = [dstate EXCEPT !.status = "ok"]
                /\ dtrace' = dtrace \o returned
                /\ UNCHANGED <<stack, cur>>
           ELSE LET s == steps[Len(steps) - k]
                IN  /\ dstate' = [dstate EXCEPT !.k = k + 1]
                    /\ dtrace' = dtrace \o returned \o << <<"call", s>> >>
                    /\ stack' = [stack EXCEPT ![p] = <<Frame(s)>>]
                    /\ cur' = [cur EXCEPT ![p] =
                                 [step |-> s, status |-> "running", error |-> None,
                                  fresh |-> /\ result_image_name(s) \notin images
                                            /\ cached_image_path(s) \notin cache]]
    /\ UNCHANGED <<files, IN_CICD, base_docker_image, cache_directory,
                   output_directory, images, cache, active, prevRun, trace,
                   edited, last_edit, nruns, nedits>>
    /\ UNCHANGED <<bvars, xvars>>

\* Variant: the loop goes on after a step.run() that raised.
deploy_after_failure(p) ==
    /\ p \in active
    /\ dstate.status = "running"
    /\ stack[p] = <<>>
    /\ dstate.k = 0 \/ cur[p].status \in {"ok", "error"}
    /\ LET steps == Deployments[dstate.deployment].steps
           k == dstate.k
           returned == IF k = 0 THEN <<>> ELSE << <<"return", steps[k]>> >>
       IN  IF k = Len(steps)
           THEN /\ dstate' = [dstate EXCEPT !.status = "ok"]
                /\ dtrace' = dtrace \o returned
                /\ UNCHANGED <<stack, cur>>
           ELSE LET s == steps[k + 1]
                IN  /\ dstate' = [dstate EXCEPT !.k = k + 1]
                    /\ dtrace' = dtrace \o returned \o << <<"call", s>> >>
                    /\ stack' = [stack EXCEPT ![p] = <<Frame(s)>>]
                    /\ cur' = [cur EXCEPT ![p] =
                                 [step |-> s, status |-> "running", error |-> None,
                                  fresh |-> /\ result_image_name(s) \notin images
                                            /\ cached_image_path(s) \notin cache]]
    /\ UNCHANGED <<files, IN_CICD, base_docker_image, cache_directory,
                   output_directory, images, cache, active, prevRun, trace,
                   edited, last_edit, nruns, nedits>>
    /\ UNCHANGED <<bvars, xvars>>

\* Deployment.deploy, lines 639-640: one turn of the loop.  The step.run() of
\* the turn before has returned; the next step's run() is called, or, after
\* the last step, deploy() returns.
deploy(p) ==
    /\ p \in active
    /\ dstate.status = "running"
    /\ stack[p] = <<>>
    /\ dstate.k = 0 \/ cur[p].status = "ok"
    /\ LET steps == Deployments[dstate.deployment].steps
           k == dstate.k
           returned == IF k = 0 THEN <<>> ELSE << <<"return", steps[k]>> >>
       IN  IF k = Len(steps)
           THEN /\ dstate' = [dstate EXCEPT !.status = "ok"]
                /\ dtrace' = dtrace \o returned
                /\ UNCHANGED <<stack, cur>>
           ELSE LET s == steps[k + 1]
                IN  /\ dstate' = [dstate EXCEPT !.k = k + 1]
                    /\ dtrace' = dtrace \o returned \o << <<"call", s>> >>
                    /\ stack' = [stack EXCEPT ![p] = <<Frame(s)>>]
                    /\ cur' = [cur EXCEPT ![p] =
                                 [step |-> s, status |-> "running", error |-> None,
                                  fresh |-> /\ result_image_name(s) \notin images
                                            /\ cached_image_path(s) \notin cache]]
    /\ UNCHANGED <<files, IN_CICD, base_docker_image, cache_directory,
                   output_directory, images, cache, active, prevRun, trace,
                   edited, last_edit, nruns, nedits>>
    /\ UNCHANGED <<bvars, xvars>>

\* Deployment.deploy, lines 639-640: step.run() raised; the loop has no
\* handler, so the exception leaves deploy().
deploy_raise(p) ==
    /\ p \in active
    /\ dstate.status = "running"
    /\ stack[p] = <<>>
    /\ dstate.k > 0
    /\ cur[p].status = "error"
    /\ dstate' = [dstate EXCEPT !.status = "error"]
    /\ dtrace' = Append(dtrace, <<"raise", Deployments[dstate.deployment].steps[dstate.k]>>)
    /\ UNCHANGED <<files, IN_CICD, base_docker_image, cache_directory,
                   output_directory, images, cache, active, stack, cur, prevRun,
                   trace, edited, last_edit, nruns, nedits>>
    /\ UNCHANGED <<bvars, xvars>>

NextDeploy ==
    \/ \E p \in Procs, d \in DeploymentIds : StartDeploy(p, d)
    \/ \E p \in Procs : deploy(p)
    \/ \E p \in Procs : deploy_raise(p)
    \/ \E p \in Procs : run(p)
    \/ \E p \in Procs : docker_images_q(p)
    \/ \E p \in Procs : cached_image_is_file(p)
    \/ \E p \in Procs : docker_load(p)
    \/ \E p \in Procs, ok \in BOOLEAN : run_in_docker_impl(p, ok)
    \/ \E p \in Procs : save_docker_image(p)
    \/ \E p \in Procs, ok \in BOOLEAN : run_locally(p, ok)

SpecDeploy == Init /\ [][NextDeploy]_vars

(***************************************************************************)
(* CacheableBuilder (lines 789-1013).  A python value of an input is       *)
(* written as its text: "None", "True", "False", "" and other strings.     *)
(***************************************************************************)
Truthy(value) == value \notin {"None", "False", ""}

\* BuilderInput, lines 778-785: action, default and required default to None.
BuilderInput(name, dest, action, default, required) ==
    [name |-> name, dest |-> dest, action |-> action, default |-> default, required |-> required]

\* str.startswith("store_") on the actions of argparse.
StartsWithStore_(action) == action \in {"store_true", "store_false", "store_const"}

\* A builder created by another one in _initialize: the class and the values
\* given to create(), in the order of INPUT.
Required(builder, values) == [builder |-> builder, values |-> values]

\* The builder classes: NAME, DEPLOYMENT_STEP, the required builders that
\* _initialize creates, and INPUT.  X has no deployment step; the step of V
\* runs on the host, the steps of Y and W run in docker.
BuilderTable ==
    [X |-> [NAME |-> "x", DEPLOYMENT_STEP |-> None, required_builders |-> <<>>, INPUT |-> <<>>],
     Y |-> [NAME |-> "y", DEPLOYMENT_STEP |-> "A6", required_builders |-> <<>>,
            INPUT |-> << BuilderInput("--install_type", "install_type", "None", "None", "True") >>],
     V |-> [NAME |-> "v", DEPLOYMENT_STEP |-> "B",
            required_builders |-> << Required("X", <<>>), Required("Y", <<"package">>) >>,
            INPUT |-> <<>>],
     W |-> [NAME |-> "w", DEPLOYMENT_STEP |-> "B6",
            required_builders |-> << Required("X", <<>>), Required("Y", <<"package">>) >>,
            INPUT |-> << BuilderInput("--variant", "variant", "None", "None", "True") >>]]

BuilderIds == DOMAIN BuilderTable

\* The values a caller may give to an input.
ValuesOf(i) ==
    IF StartsWithStore_(i.action) THEN {"None", "False", "True"}
    ELSE IF Truthy(i.required) THEN {"None", "package"}
    ELSE {"None", "", "t"}

\* All input_values of a builder, in the order of INPUT.
RECURSIVE InputValuesUpTo(_, _)
InputValuesUpTo(INPUT, k) ==
    IF k = 0 THEN {<<>>}
    ELSE {Append(vs, v) : vs \in InputValuesUpTo(INPUT, k - 1), v \in ValuesOf(INPUT[k])}

InputValues == [b \in BuilderIds |-> InputValuesUpTo(BuilderTable[b].INPUT, Len(BuilderTable[b].INPUT))]

\* build(), lines 833-836.
builder_runs_in_docker(b) ==
    IF BuilderTable[b].DEPLOYMENT_STEP # None
    THEN runs_in_docker(BuilderTable[b].DEPLOYMENT_STEP)
    ELSE FALSE

\* build(), lines 875-896: the command line for the run in the container.
\* The loop stops with ValueError at a required input without value.
RECURSIVE command_args_loop(_, _, _, _)
command_args_loop(INPUT, input_values, k, command_args) ==
    IF k > Len(INPUT) THEN [raised |-> FALSE, command_args |-> command_args]
    ELSE LET i == INPUT[k]
             value == input_values[k]
         IN  IF value = "None"
             THEN IF Truthy(i.required)
                  THEN [raised |-> TRUE, command_args |-> command_args]
                  ELSE command_args_loop(INPUT, input_values, k + 1, command_args)
             ELSE IF Truthy(i.action) /\ StartsWithStore_(i.action)
             THEN IF ~Truthy(value)
                  THEN command_args_loop(INPUT, input_values, k + 1, command_args)
                  ELSE command_args_loop(INPUT, input_values, k + 1, Append(command_args, i.name))
             ELSE command_args_loop(INPUT, input_values, k + 1, command_args \o <<i.name, value>>)

build_package_script_path == "/scalyr-agent-2/agent_build/scripts/builder_helper.py"

\* Variant: a flag is written whenever it has a value, and with the value.
command_args_flags_as_values(NAME, INPUT, input_values) ==
    LET plain == [k \in DOMAIN INPUT |-> [INPUT[k] EXCEPT !.action = "None"]]
    IN  command_args_loop(plain, input_values, 1, <<"python3", build_package_script_path, NAME>>)

command_args(NAME, INPUT, input_values) ==
    command_args_loop(INPUT, input_values, 1, <<"python3", build_package_script_path, NAME>>)

\* str.lower() on the text of an image name; the digest is hexadecimal in
\* lower case already.
LowerCase == [A |-> "a", B |-> "b", E |-> "e"]
lower(image) == <<IF image[1] \in DOMAIN LowerCase THEN LowerCase[image[1]] ELSE image[1], image[2]>>

\* common.IN_DOCKER of a process started with the options env: the flag the
\* container is given is the one build() looks at in line 838.
common_IN_DOCKER(env) ==
    \E k \in DOMAIN env : k > 1 /\ env[k - 1] = "-e" /\ env[k] = "AGENT_BUILD_IN_DOCKER=1"

\* Variant: the container is started without the flag.
env_options_no_flag == IF IN_CICD THEN <<"-e", "IN_CICD=1">> ELSE <<>>

\* build(), lines 911-923.
env_options == <<"-e", "AGENT_BUILD_IN_DOCKER=1">> \o (IF IN_CICD THEN <<"-e", "IN_CICD=1">> ELSE <<>>)

\* add_command_line_arguments / handle_command_line_arguments in the
\* container: the value argparse gives each input for a command line.
parse_args(b, args) ==
    LET INPUT == BuilderTable[b].INPUT
    IN  [k \in DOMAIN INPUT |->
           LET i == INPUT[k]
               at == {n \in DOMAIN args : n > 3 /\ args[n] = i.name}
           IN  IF at = {} THEN i.default
               ELSE IF i.action = "store_true" THEN "True"
               ELSE args[(CHOOSE n \in at : TRUE) + 1]]

(***************************************************************************)
(* build() (lines 821-943) as steps.  A frame is one invocation of build():*)
(* inv numbers the invocations, parent is the invocation that called it or *)
(* that started its container, in_docker is common.IN_DOCKER of the        *)
(* process it runs in, i is the index of the loop of line 843.             *)
(***************************************************************************)
\* The process that runs the builder.
BuildProc == 1

BFrame(b, values, in_docker, inv, parent) ==
    [builder |-> b, values |-> values, in_docker |-> in_docker,
     inv |-> inv, parent |-> parent, pc |-> "reset", i |-> 0]

BTop == bstack[Len(bstack)]

BAtPc(pc) == bstack # <<>> /\ BTop.pc = pc

\* One operation of an invocation, as it is logged in btrace.
BEvent(fr, ev) ==
    [ev |-> ev, inv |-> fr.inv, parent |-> fr.parent, builder |-> fr.builder,
     in_docker |-> fr.in_docker, child |-> 0, image |-> NoImage, env |-> <<>>, args |-> <<>>, error |-> None,
     removed |-> {}]

\* The variables of the steps that no operation of a builder changes.
stepvars == <<files, IN_CICD, base_docker_image, cache_directory, output_directory, active, prevRun, edited, last_edit, nedits>>

\* A file of an output directory: the invocation that wrote it (0 for an
\* invocation of an earlier call) and whether it was written completely.
OutFile(inv, complete) == <<inv, IF complete THEN "complete" ELSE "partial">>

\* Variant: after the required builders _build() is called in any case.
after_required_always_build(fr, i) ==
    IF i < Len(BuilderTable[fr.builder].required_builders)
    THEN [fr EXCEPT !.pc = "required", !.i = i]
    ELSE [fr EXCEPT !.pc = "_build", !.i = i]

\* build(), lines 842-853 seen from line 842: with i required builders
\* built, the frame calls the next one, or goes on to its own action.
after_required(fr, i) ==
    IF i < Len(BuilderTable[fr.builder].required_builders)
    THEN [fr EXCEPT !.pc = "required", !.i = i]
    ELSE [fr EXCEPT !.pc = IF builder_runs_in_docker(fr.builder) THEN "docker_run" ELSE "_build",
                    !.i = i]

\* Variant: common.IN_DOCKER is not looked at.
after_reset_in_docker_too(fr) ==
    IF BuilderTable[fr.builder].DEPLOYMENT_STEP # None
    THEN [fr EXCEPT !.pc = "deployment_step"]
    ELSE after_required(fr, 0)

\* build(), lines 833-853 seen after the reset of the output directory.
after_reset(fr) ==
    IF ~fr.in_docker
    THEN IF BuilderTable[fr.builder].DEPLOYMENT_STEP # None
         THEN [fr EXCEPT !.pc = "deployment_step"]
         ELSE after_required(fr, 0)
    ELSE [fr EXCEPT !.pc = "_build"]

\* The top frame returns normally.  A frame that waits in line 844 goes on
\* with its loop; a frame that waits for its container in lines 931-941
\* returns as well.  The result is the stack and the returns to log.
RECURSIVE BReturned(_, _)
BReturned(stk, log) ==
    LET fr == stk[Len(stk)]
        rest == SubSeq(stk, 1, Len(stk) - 1)
        caller == rest[Len(rest)]
        logged == Append(log, BEvent(fr, "return"))
    IN  IF rest = <<>> THEN [stack |-> rest, log |-> logged]
        ELSE IF caller.pc = "wait_required"
        THEN [stack |-> [rest EXCEPT ![Len(rest)] = after_required(caller, caller.i + 1)],
              log |-> logged]
        ELSE BReturned(rest, logged)

BReturn(log) ==
    LET r == BReturned(bstack, log)
    IN  /\ bstack' = r.stack
        /\ btrace' = btrace \o r.log
        /\ bcur' = IF r.stack = <<>> THEN [bcur EXCEPT !.status = "ok"] ELSE bcur

\* An exception leaves every frame: build() has no handler.  What leaves a
\* container is the CalledProcessError of check_call_with_log.
BRaise(log, error) ==
    LET outside == IF BTop.in_docker /\ Len(bstack) > 1 THEN "CalledProcessError" ELSE error
    IN  /\ bstack' = <<>>
        /\ btrace' = btrace \o log
        /\ bcur' = [bcur EXCEPT !.status = "error", !.error = outside]

\* A caller invokes builder.build(locally) on a builder with input_values
\* (handle_command_line_arguments, lines 990-992, or create()).  The
\* invocations are numbered from 1 again.
StartBuild(b, input_values, locally) ==
    /\ bstack = <<>>
    /\ stack[BuildProc] = <<>>
    /\ nruns < MaxRuns
    /\ nruns' = nruns + 1
    /\ ninv' = 1
    /\ bcur' = [builder |-> b, status |-> "running", error |-> None, locally |-> locally,
                values |-> input_values, inv |-> 1]
    /\ btrace' = <<>>
    /\ bstack' = <<BFrame(b, input_values, IN_DOCKER, 1, 0)>>
    /\ out' = [n \in BuilderNames |-> {<<0, f[2]>> : f \in out[n]}]
    /\ trace' = [trace EXCEPT ![BuildProc] = <<>>]
    /\ cur' = [cur EXCEPT ![BuildProc] = NoCall]
    /\ UNCHANGED <<stepvars, images, cache, stack, dvars, xvars, IN_DOCKER,
                   regenerated>>

\* Variant: an existing output directory is kept.
reset_output_path_keep(p) ==
    /\ p = BuildProc
    /\ BAtPc("reset")
    /\ LET fr == BTop
           n == Len(bstack)
       IN  /\ out' = out
           /\ btrace' = Append(btrace, BEvent(fr, "reset"))
           /\ bstack' = [bstack EXCEPT ![n] = after_reset(fr)]
    /\ UNCHANGED <<stepvars, images, cache, stack, cur, trace, nruns, xvars,
                   dvars,
                   IN_DOCKER, bcur, ninv, regenerated>>

\* build(), lines 828-831: rmtree of the output directory and mkdir; then
\* lines 833-853 choose what follows.
reset_output_path(p) ==
    /\ p = BuildProc
    /\ BAtPc("reset")
    /\ LET fr == BTop
           n == Len(bstack)
       IN  /\ out' = [out EXCEPT ![BuilderTable[fr.builder].NAME] = {}]
           /\ btrace' = Append(btrace, [BEvent(fr, "reset") EXCEPT
                                          !.removed = out[BuilderTable[fr.builder].NAME]])
           /\ bstack' = [bstack EXCEPT ![n] = after_reset(fr)]
    /\ UNCHANGED <<stepvars, images, cache, stack, cur, trace, nruns, xvars,
                   dvars,
                   IN_DOCKER, bcur, ninv, regenerated>>

\* build(), line 840: self.deployment_step.run() is called.
deployment_step_run(p) ==
    /\ p = BuildProc
    /\ BAtPc("deployment_step")
    /\ LET fr == BTop
           n == Len(bstack)
           s == BuilderTable[fr.builder].DEPLOYMENT_STEP
       IN  /\ btrace' = Append(btrace, BEvent(fr, "deployment_step.run"))
           /\ bstack' = [bstack EXCEPT ![n].pc = "wait_deployment_step"]
           /\ stack' = [stack EXCEPT ![p] = <<Frame(s)>>]
           /\ cur' = [cur EXCEPT ![p] =
                        [step |-> s, status |-> "running", error |-> None,
                         fresh |-> /\ result_image_name(s) \notin images
                                   /\ cached_image_path(s) \notin cache]]
           /\ trace' = [trace EXCEPT ![p] = <<>>]
    /\ UNCHANGED <<stepvars, images, cache, nruns, xvars,
                   dvars, IN_DOCKER, bcur, out,
                   ninv, regenerated>>

\* Variant: an exception of the deployment step is caught and ignored.
deployment_step_returned_or_ignored(p) ==
    /\ p = BuildProc
    /\ BAtPc("wait_deployment_step")
    /\ stack[p] = <<>>
    /\ LET fr == BTop
           n == Len(bstack)
       IN  /\ btrace' = Append(btrace, [BEvent(fr, IF cur[p].status = "ok"
                                                  THEN "deployment_step.return"
                                                  ELSE "deployment_step.raise")
                                          EXCEPT !.error = cur[p].error])
           /\ bstack' = [bstack EXCEPT ![n] = after_required(fr, 0)]
           /\ UNCHANGED bcur
    /\ UNCHANGED <<stepvars, images, cache, stack, cur, trace, nruns, xvars,
                   dvars,
                   IN_DOCKER, out, ninv, regenerated>>

\* build(), line 840: self.deployment_step.run() has returned, or it has
\* raised and the exception leaves build().
deployment_step_returned(p) ==
    /\ p = BuildProc
    /\ BAtPc("wait_deployment_step")
    /\ stack[p] = <<>>
    /\ LET fr == BTop
           n == Len(bstack)
       IN  IF cur[p].status = "ok"
           THEN /\ btrace' = Append(btrace, BEvent(fr, "deployment_step.return"))
                /\ bstack' = [bstack EXCEPT ![n] = after_required(fr, 0)]
                /\ UNCHANGED bcur
           ELSE BRaise(<<[BEvent(fr, "deployment_step.raise") EXCEPT !.error = cur[p].error]>>,
                       cur[p].error)
    /\ UNCHANGED <<stepvars, images, cache, stack, cur, trace, nruns, xvars,
                   dvars,
                   IN_DOCKER, out, ninv, regenerated>>

\* Variant: the loop walks the required builders from the last to the first.
required_builder_build_reversed(p) ==
    /\ p = BuildProc
    /\ BAtPc("required")
    /\ LET fr == BTop
           n == Len(bstack)
           builders == BuilderTable[fr.builder].required_builders
           builder == builders[Len(builders) - fr.i]
       IN  /\ ninv' = ninv + 1
           /\ btrace' = Append(btrace, [BEvent(fr, "builder.build") EXCEPT !.child = ninv + 1])
           /\ bstack' = Append([bstack EXCEPT ![n].pc = "wait_required"],
                               BFrame(builder.builder, builder.values, fr.in_docker,
                                      ninv + 1, fr.inv))
    /\ UNCHANGED <<stepvars, images, cache, stack, cur, trace, nruns, xvars,
                   dvars,
                   IN_DOCKER, bcur, out, regenerated>>

\* build(), lines 843-844: builder.build() of the next required builder.
required_builder_build(p) ==
    /\ p = BuildProc
    /\ BAtPc("required")
    /\ LET fr == BTop
           n == Len(bstack)
           builder == BuilderTable[fr.builder].required_builders[fr.i + 1]
       IN  /\ ninv' = ninv + 1
           /\ btrace' = Append(btrace, [BEvent(fr, "builder.build") EXCEPT !.child = ninv + 1])
           /\ bstack' = Append([bstack EXCEPT ![n].pc = "wait_required"],
                               BFrame(builder.builder, builder.values, fr.in_docker,
                                      ninv + 1, fr.inv))
    /\ UNCHANGED <<stepvars, images, cache, stack, cur, trace, nruns, xvars,
                   dvars,
                   IN_DOCKER, bcur, out, regenerated>>

\* build(), lines 848 and 852: self._build(), which writes its result into
\* the output directory and may fail part-way; then build() returns.
_build(p, build_ok) ==
    /\ p = BuildProc
    /\ BAtPc("_build")
    /\ LET fr == BTop
           name == BuilderTable[fr.builder].NAME
       IN  /\ out' = [out EXCEPT ![name] = @ \cup {OutFile(fr.inv, build_ok)}]
           /\ IF build_ok
              THEN BReturn(<<BEvent(fr, "_build")>>)
              ELSE BRaise(<<BEvent(fr, "_build"),
                            [BEvent(fr, "_build.raise") EXCEPT !.error = "BuildError"]>>,
                          "BuildError")
    /\ UNCHANGED <<stepvars, images, cache, stack, cur, trace, nruns, xvars,
                   dvars,
                   IN_DOCKER, ninv, regenerated>>

\* build(), lines 870-941: the command line is regenerated and 'docker run'
\* starts it in a container of the deployment step's result image.  The
\* process in the container has AGENT_BUILD_IN_DOCKER set, parses the
\* command line and calls build() of the builder named in it.
docker_run(p) ==
    /\ p = BuildProc
    /\ BAtPc("docker_run")
    /\ LET fr == BTop
           n == Len(bstack)
           cmd == command_args(BuilderTable[fr.builder].NAME, BuilderTable[fr.builder].INPUT,
                               fr.values)
           base_image_name == lower(result_image_name(BuilderTable[fr.builder].DEPLOYMENT_STEP))
           call == [BEvent(fr, "docker run") EXCEPT !.image = base_image_name,
                                                    !.env = env_options,
                                                    !.args = cmd.command_args,
                                                    !.child = ninv + 1]
       IN  IF cmd.raised
           THEN /\ BRaise(<<[BEvent(fr, "raise") EXCEPT !.error = "ValueError"]>>, "ValueError")
                /\ UNCHANGED ninv
           ELSE IF base_image_name \notin images
           THEN /\ BRaise(<<call, [BEvent(fr, "raise") EXCEPT !.error = "CalledProcessError"]>>,
                          "CalledProcessError")
                /\ UNCHANGED ninv
           ELSE /\ ninv' = ninv + 1
                /\ btrace' = Append(btrace, call)
                /\ bstack' = Append([bstack EXCEPT ![n].pc = "wait_docker_run"],
                                    BFrame(fr.builder, parse_args(fr.builder, cmd.command_args),
                                           common_IN_DOCKER(env_options), ninv + 1, fr.inv))
                /\ UNCHANGED bcur
    /\ UNCHANGED <<stepvars, images, cache, stack, cur, trace, nruns, xvars,
                   dvars,
                   IN_DOCKER, out, regenerated>>

InitBuild ==
    /\ InitSteps
    /\ dstate = NoDeploy
    /\ dtrace = <<>>
    /\ IN_DOCKER \in BOOLEAN
    /\ InitBuilders

NextBuild ==
    \/ \E b \in BuilderIds : \E input_values \in InputValues[b], locally \in BOOLEAN :
          StartBuild(b, input_values, locally)
    \/ \E p \in Procs : reset_output_path(p)
    \/ \E p \in Procs : deployment_step_run(p)
    \/ \E p \in Procs : deployment_step_returned(p)
    \/ \E p \in Procs : required_builder_build(p)
    \/ \E p \in Procs, build_ok \in BOOLEAN : _build(p, build_ok)
    \/ \E p \in Procs : docker_run(p)
    \/ \E p \in Procs : run(p)
    \/ \E p \in Procs : docker_images_q(p)
    \/ \E p \in Procs : cached_image_is_file(p)
    \/ \E p \in Procs : docker_load(p)
    \/ \E p \in Procs, ok \in BOOLEAN : run_in_docker_impl(p, ok)
    \/ \E p \in Procs : save_docker_image(p)
    \/ \E p \in Procs, ok \in BOOLEAN : run_locally(p, ok)

SpecBuild == InitBuild /\ [][NextBuild]_vars

\* build() is sequential code: as long as a call is in progress its next
\* operation is executed.
SpecBuildFair == InitBuild /\ [][NextBuild]_vars /\ WF_vars(NextBuild)

(***************************************************************************)
(* The regeneration of the command line (lines 875-896) on its own: any    *)
(* INPUT list of at most MaxInputs declarations and any values for it.     *)
(***************************************************************************)
InputKinds ==
    {BuilderInput("--variant", "variant", "None", "None", "True"),
     BuilderInput("--debug", "debug", "store_true", "False", "None"),
     BuilderInput("--no-strip", "strip", "store_false", "True", "False"),
     BuilderInput("--tag", "tag", "store", "None", "False")}

\* The lists of at most n different declarations.
RECURSIVE InputLists(_)
InputLists(n) ==
    IF n = 0 THEN {<<>>}
    ELSE LET shorter == InputLists(n - 1)
         IN  shorter \cup
             UNION {{Append(l, i) : i \in InputKinds \ {l[k] : k \in DOMAIN l}} :
                    l \in {m \in shorter : Len(m) = n - 1}}

InitArgs ==
    /\ InitSteps
    /\ dstate = NoDeploy
    /\ dtrace = <<>>
    /\ IN_DOCKER = FALSE
    /\ bstack = <<>>
    /\ bcur = NoBuild
    /\ btrace = <<>>
    /\ out = [n \in BuilderNames |-> {}]
    /\ ninv = 0
    /\ InitOther
    /\ \E INPUT \in InputLists(MaxInputs) :
         \E input_values \in InputValuesUpTo(INPUT, Len(INPUT)) :
            regenerated = [NAME |-> "w", INPUT |-> INPUT, input_values |-> input_values,
                           result |-> NoResult]

\* build(), lines 875-896, for the builder and the values drawn.
regenerate_command_line ==
    /\ regenerated.result = NoResult
    /\ regenerated' = [regenerated EXCEPT !.result =
                         command_args(regenerated.NAME, regenerated.INPUT,
                                      regenerated.input_values)]
    /\ UNCHANGED <<stepvars, images, cache, stack, cur, trace, nruns, xvars,
                   dvars,
                   IN_DOCKER, bstack, bcur, btrace, out, ninv>>

NextArgs == regenerate_command_line

SpecArgs == InitArgs /\ [][NextArgs]_vars

(***************************************************************************)
(* Vocabulary of the properties                                            *)
(***************************************************************************)
Tracked(s) ==
    LET globs == StepTable[s].tracked_file_globs
    IN  UNION {globs[i] : i \in DOMAIN globs}

EnvPairs(s) ==
    LET env == StepTable[s].environment_variables
    IN  {env[i] : i \in DOMAIN env}

\* Executions of the own action of the step of the call in cur.
OwnActions(p) ==
    Count(trace[p], cur[p].step, "impl") + Count(trace[p], cur[p].step, "script")

\* The call in cur runs the same step as the call before it, which returned
\* normally, and no tracked file of the step was modified in between.
SecondRunInARow(p) ==
    /\ p \in active
    /\ cur[p].step # None
    /\ prevRun[p].step = cur[p].step
    /\ prevRun[p].status = "ok"
    /\ prevRun[p].edited \cap Tracked(cur[p].step) = {}

C2_PredecessorFeedsForward ==
    \A b \in StepIds :
        LET a == previous_step(b)
        IN  (a # None /\ last_edit.path \in Tracked(a)) =>
               /\ checksum(a) # last_edit.checksum[a]
               /\ id(a) # MakeId(StepTable[a].name, last_edit.checksum[a])
               /\ checksum(b) # last_edit.checksum[b]
               /\ id(b) # MakeId(StepTable[b].name, last_edit.checksum[b])

(***************************************************************************)
(* C3: the checksum covers the environment variables as sorted key/value   *)
(* pairs: two steps with the same name, tracked files and predecessor      *)
(* have different checksums when they differ in the value of a variable,   *)
(* and the same checksum when their variables are equal, whatever the      *)
(* order of insertion.                                                     *)
(***************************************************************************)
SameButEnv(s, t) ==
    /\ StepTable[s].name = StepTable[t].name
    /\ StepTable[s].tracked_file_globs = StepTable[t].tracked_file_globs
    /\ StepTable[s].previous = StepTable[t].previous

SameButEnvPairs ==
    {st \in StepIds \X StepIds : st[1] # st[2] /\ SameButEnv(st[1], st[2])}

C3_ChecksumCoversEnvironment ==
    \A st \in SameButEnvPairs :
        /\ EnvPairs(st[1]) # EnvPairs(st[2]) => checksum(st[1]) # checksum(st[2])
        /\ EnvPairs(st[1]) = EnvPairs(st[2]) => checksum(st[1]) = checksum(st[2])

(***************************************************************************)
(* C4: for a step B whose predecessor is A, after the content of a file    *)
(* that B tracks and A does not was changed, B's checksum and id differ    *)
(* from those before the change and A's checksum and id are the same.      *)
(***************************************************************************)
C4_OwnFileChangesOwnChecksumOnly ==
    \A b \in StepIds :
        LET a == previous_step(b)
        IN  (a # None /\ last_edit.path \in Tracked(b) \ Tracked(a)) =>
               /\ checksum(b) # last_edit.checksum[b]
               /\ id(b) # MakeId(StepTable[b].name, last_edit.checksum[b])
               /\ checksum(a) = last_edit.checksum[a]
               /\ id(a) = MakeId(StepTable[a].name, last_edit.checksum[a])

C4_Witness ==
    /\ last_edit.path = F2
    /\ previous_step("B6") = "A6"
    /\ F2 \in Tracked("B6") \ Tracked("A6")
    /\ id("B6") # cache_directory["B6"]
    /\ id("A6") = cache_directory["A6"]

(***************************************************************************)
(* C5: two instances of the same step (same name, same tracked files) on   *)
(* different base docker images have different ids, so that the image      *)
(* built for one is not taken for the image of the other.                  *)
(***************************************************************************)
C5_IdDistinguishesBaseImage ==
    \A s, t \in StepIds :
        (/\ StepTable[s].name = StepTable[t].name
         /\ Tracked(s) = Tracked(t)
         /\ runs_in_docker(s) /\ runs_in_docker(t)
         /\ initial_docker_image(s) # initial_docker_image(t))
        => id(s) # id(t)

(***************************************************************************)
(* C6: two steps that differ only in the order in which their tracked glob *)
(* patterns are declared have the same checksum and id.                    *)
(***************************************************************************)
IsPermutation(a, b) ==
    /\ Len(a) = Len(b)
    /\ \A x \in {a[i] : i \in DOMAIN a} \cup {b[i] : i \in DOMAIN b} :
          Cardinality({i \in DOMAIN a : a[i] = x}) = Cardinality({i \in DOMAIN b : b[i] = x})

SameButGlobOrder(s, t) ==
    /\ StepTable[s].name = StepTable[t].name
    /\ StepTable[s].previous = StepTable[t].previous
    /\ StepTable[s].environment_variables = StepTable[t].environment_variables
    /\ IsPermutation(StepTable[s].tracked_file_globs, StepTable[t].tracked_file_globs)

SameButGlobOrderPairs ==
    {st \in StepIds \X StepIds : st[1] # st[2] /\ SameButGlobOrder(st[1], st[2])}

C6_GlobOrderIndependent ==
    \A st \in SameButGlobOrderPairs :
        /\ checksum(st[1]) = checksum(st[2])
        /\ id(st[1]) = id(st[2])

\* E1 was built and the image is then taken for E4, whose globs are declared
\* in the other order, while the two files differ in content.
C6_Witness ==
    \E p \in Procs :
        /\ SameButGlobOrder("E1", "E4")
        /\ StepTable["E1"].tracked_file_globs # StepTable["E4"].tracked_file_globs
        /\ files[F1] # files[F2]
        /\ prevRun[p].step = "E1" /\ prevRun[p].nact = 1 /\ prevRun[p].edited = {}
        /\ cur[p].step = "E4" /\ cur[p].status = "ok"
        /\ trace[p] = <<Event("E4", "images_q")>>

(***************************************************************************)
(* C7: in every activation of run() of a step that has a predecessor, the  *)
(* predecessor's run() has returned before the step's own image query,     *)
(* cache lookup, image load, action or cache save starts, whether or not   *)
(* the step's own image already exists.                                    *)
(***************************************************************************)
OwnPart == {"images_q", "is_file", "load", "impl", "save", "locally"}

C7_PredecessorRunsFirst ==
    \A p \in Procs : \A i \in DOMAIN stack[p] :
        LET fr == stack[p][i]
        IN  (previous_step(fr.step) # None /\ fr.pc \in OwnPart) =>
               /\ fr.prev_returned
               /\ i = Len(stack[p])

C7_Witness ==
    \E p \in Procs :
        /\ AtPc(p, "images_q")
        /\ previous_step(Top(p).step) # None
        /\ Top(p).prev_returned
        /\ result_image_name(Top(p).step) \in images
        /\ trace[p] # <<>>

(***************************************************************************)
(* C8: when the image query of a Docker-based run finds an image named     *)
(* with the step's id, run() returns at once: the images and the cache are *)
(* unchanged and the activation performs no cache lookup, no load, no      *)
(* action and no save, in CI mode and outside it.                          *)
(***************************************************************************)
C8_ExistingImageSkips ==
    [][\A p \in Procs :
          (/\ AtPc(p, "images_q")
           /\ result_image_name(Top(p).step) \in images
           /\ trace'[p] # trace[p])
          => /\ stack'[p] = Returned(stack[p])
             /\ trace'[p] = Append(trace[p], Event(Top(p).step, "images_q"))
             /\ images' = images
             /\ cache' = cache]_vars

C8_Witness ==
    \E p \in Procs :
        /\ IN_CICD
        /\ cur[p].status = "ok"
        /\ runs_in_docker(cur[p].step)
        /\ cached_image_path(cur[p].step) \in cache
        /\ result_image_name(cur[p].step) \in images
        /\ trace[p] = <<Event(cur[p].step, "images_q")>>

(***************************************************************************)
(* C9: in CI mode, when the cache lookup of a Docker-based run finds the   *)
(* image file of the step's id while no image of that name exists, the     *)
(* next operation of the activation is the load of the cached image, which *)
(* adds the image and returns: the action is not executed and the cache is *)
(* not written.                                                            *)
(***************************************************************************)
C9_CacheHitLoads ==
    [][\A p \in Procs :
          /\ (/\ AtPc(p, "is_file")
              /\ IN_CICD
              /\ result_image_name(Top(p).step) \notin images
              /\ cached_image_path(Top(p).step) \in cache
              /\ trace'[p] # trace[p])
             => /\ stack'[p] = [stack[p] EXCEPT ![Len(stack[p])].pc = "load"]
                /\ images' = images
                /\ cache' = cache
          /\ (AtPc(p, "load") /\ trace'[p] # trace[p])
             => /\ stack'[p] = Returned(stack[p])
                /\ trace'[p] = Append(trace[p], Event(Top(p).step, "load"))
                /\ images' = images \cup {result_image_name(Top(p).step)}
                /\ cache' = cache]_vars

C9_Witness ==
    \E p \in Procs :
        LET s == cur[p].step
        IN  /\ IN_CICD
            /\ cur[p].status = "ok"
            /\ trace[p] = <<Event(s, "images_q"), Event(s, "is_file"), Event(s, "load")>>
            /\ result_image_name(s) \in images
            /\ cached_image_path(s) \in cache

(***************************************************************************)
(* C10: the cache is written only in CI mode, only by the save that        *)
(* follows the execution of the step's action in the same run(), and what  *)
(* is written is the image file of that step; outside CI mode run()        *)
(* performs no cache lookup, no load and no save, even when a cache entry  *)
(* for the id exists.                                                      *)
(***************************************************************************)
CacheEvents == {"is_file", "load", "save"}

C10_CacheOnlyInCI ==
    /\ [](~IN_CICD =>
            \A p \in Procs : \A i \in DOMAIN trace[p] : trace[p][i].ev \notin CacheEvents)
    /\ [][cache' # cache =>
            /\ IN_CICD
            /\ \E p \in Procs :
                 /\ AtPc(p, "save")
                 /\ trace[p][Len(trace[p])] = Event(Top(p).step, "impl")
                 /\ result_image_name(Top(p).step) \in images
                 /\ cache' = cache \cup {cached_image_path(Top(p).step)}]_vars

C10_Witness ==
    \E p \in Procs :
        LET s == cur[p].step
        IN  /\ IN_CICD
            /\ cur[p].status = "ok"
            /\ trace[p] = <<Event(s, "images_q"), Event(s, "is_file"),
                            Event(s, "impl"), Event(s, "save")>>
            /\ cached_image_path(s) \in cache

\* Outside CI mode a step is built although its image file is in the cache.
C10_WitnessOutsideCI ==
    \E p \in Procs :
        LET s == cur[p].step
        IN  /\ ~IN_CICD
            /\ cur[p].status = "ok"
            /\ cached_image_path(s) \in cache
            /\ trace[p] = <<Event(s, "images_q"), Event(s, "impl")>>

(***************************************************************************)
(* C11: where a step runs                                                  *)
(***************************************************************************)
\* The base execution context a step resolves to, read off the declarations:
\* what the root of its predecessor chain was given as base.
RECURSIVE ResolvedContext(_)
ResolvedContext(s) ==
    IF StepTable[s].previous \in StepIds
    THEN ResolvedContext(StepTable[s].previous)
    ELSE StepTable[s].previous

DockerPcs == {"images_q", "is_file", "load", "impl", "save"}
DockerEvents == {"images_q", "is_file", "load", "impl", "save"}

RECURSIVE InDeclaredOrder(_, _, _)
InDeclaredOrder(steps, k, done) ==
    IF k = 0 THEN <<>>
    ELSE InDeclaredOrder(steps, k - 1, TRUE)
         \o << <<"call", steps[k]>> >>
         \o (IF done THEN << <<"return", steps[k]>> >> ELSE <<>>)

\* The steps run() of step s runs: s and its predecessors.
RECURSIVE Chain(_)
Chain(s) == IF previous_step(s) = None THEN {s} ELSE {s} \cup Chain(previous_step(s))

\* C20: deploy() runs the steps strictly in declared order, sequentially:
\* run() of step k+1 is never started before run() of step k has returned.
\* The calls and returns of deploy() alternate along the declared list, the
\* frames on the stack belong to the run() of the step last called, and no
\* operation of a later step has happened.
C20_StepsInDeclaredOrder ==
    dstate.status # "none" =>
        LET steps == Deployments[dstate.deployment].steps
            k == dstate.k
            calls == SelectSeq(dtrace, LAMBDA e : e[1] # "raise")
        IN  /\ calls = InDeclaredOrder(steps, k, dstate.status = "ok")
            /\ \A p \in Procs :
                 /\ stack[p] # <<>> => stack[p][1].step = steps[k]
                 /\ \A i \in DOMAIN stack[p] : stack[p][i].step \in Chain(steps[k])
                 /\ \A i \in DOMAIN trace[p] :
                      \E j \in 1..k : trace[p][i].step \in Chain(steps[j])

\* Both steps of a deployment have run and deploy() has returned.
C20_Witness ==
    /\ dstate.status = "ok"
    /\ dstate.k = 2
    /\ dtrace = << <<"call", "A6">>, <<"return", "A6">>, <<"call", "B6">>, <<"return", "B6">> >>
    /\ Event("B6", "impl") \in {trace[1][i] : i \in DOMAIN trace[1]}

(***************************************************************************)
(* Vocabulary of the properties of build()                                 *)
(***************************************************************************)
\* Number of operations ev of invocation inv in btrace.
BCount(inv, ev) == Cardinality({k \in DOMAIN btrace : btrace[k].inv = inv /\ btrace[k].ev = ev})

\* The operations that are an exception.
RaiseEvents == {"deployment_step.raise", "_build.raise", "raise"}

\* A required input of the builder has no value.
MissingRequired(b, values) ==
    \E k \in DOMAIN values : Truthy(BuilderTable[b].INPUT[k].required) /\ values[k] = "None"

\* The builder's deployment step resolves to a docker image.
IsolationNeeded(b) ==
    /\ BuilderTable[b].DEPLOYMENT_STEP # None
    /\ ResolvedContext(BuilderTable[b].DEPLOYMENT_STEP) # None

(***************************************************************************)
(* C12: build(locally=True)                                                *)
(***************************************************************************)
\* C12: build(locally=True) always executes _build() directly and never
\* issues a container run, even when the deployment step runs in docker and
\* the process is not inside a container.
C12_LocallyBuildsDirectly ==
    bcur.locally =>
        /\ BCount(1, "docker run") = 0
        /\ bcur.status = "ok" => BCount(1, "_build") = 1

(***************************************************************************)
(* C13: a required input without value                                     *)
(***************************************************************************)
\* C13: if any required input has no value, build() fails with a
\* configuration error before any side effect other than the reset of the
\* output directory (the deployment step is not run, no required builder is
\* built, no container is started), and it does so on every path.
C13_RequiredInputCheckedFirst ==
    /\ (bcur.status = "error" /\ bcur.error = "ValueError") =>
          \A k \in DOMAIN btrace : btrace[k].inv = 1 /\ btrace[k].ev \in {"reset", "raise"}
    /\ (bcur.builder # None /\ MissingRequired(bcur.builder, bcur.values)) =>
          bcur.status \in {"running", "error"}

(***************************************************************************)
(* C14: the order of the prerequisites                                     *)
(***************************************************************************)
\* What invocation inv sees of the first k operations: its own operations
\* and the returns of the invocations it called, each with its builder.
SeenBy(inv, k) ==
    LET seen == SelectSeq(SubSeq(btrace, 1, k),
                          LAMBDA e : e.inv = inv \/ (e.parent = inv /\ e.ev = "return"))
    IN  [n \in DOMAIN seen |-> <<seen[n].ev, seen[n].builder>>]

\* What a builder outside a container does up to its own action: the reset,
\* its deployment step, and its required builders one after the other.
Prerequisites(b) ==
    LET builders == BuilderTable[b].required_builders
    IN  << <<"reset", b>> >>
        \o (IF BuilderTable[b].DEPLOYMENT_STEP # None
            THEN << <<"deployment_step.run", b>>, <<"deployment_step.return", b>> >>
            ELSE <<>>)
        \o Concat([n \in DOMAIN builders |->
                     << <<"builder.build", b>>, <<"return", builders[n].builder>> >>])

\* C14: for a builder whose required builders are [X, Y], when not inside a
\* container, build() runs its own deployment step to completion, then
\* X.build(), then Y.build(); all of them have returned before the builder's
\* own action (its _build() or the container run) starts.
C14_PrerequisitesInOrder ==
    \A k \in DOMAIN btrace :
        LET e == btrace[k]
        IN  (e.ev \in {"_build", "docker run"} /\ ~e.in_docker)
                => SeenBy(e.inv, k) = Append(Prerequisites(e.builder), <<e.ev, e.builder>>)

\* V, whose required builders are X and Y, has called _build() after its
\* step and both builders, and has returned.
C14_Witness ==
    /\ ~IN_DOCKER
    /\ bcur.status = "ok"
    /\ bcur.builder = "V"
    /\ BCount(1, "deployment_step.return") = 1
    /\ BCount(1, "builder.build") = 2
    /\ BCount(1, "_build") = 1

(***************************************************************************)
(* C15: a failing prerequisite                                             *)
(***************************************************************************)
\* The exception the caller of an invocation sees when operation e raises:
\* out of a container comes the CalledProcessError of 'docker run'.
ErrorOutside(e) == IF e.in_docker /\ e.parent # 0 THEN "CalledProcessError" ELSE e.error

\* C15: if a required builder's build() (or the deployment step) raises,
\* the error propagates unmodified out of build(), no later required builder
\* is built, and the builder's own _build()/dispatch never happen: an
\* exception is the last operation of the call, it ends every invocation in
\* progress, and the caller gets the error that was raised.
C15_FailurePropagates ==
    \A k \in DOMAIN btrace :
        btrace[k].ev \in RaiseEvents =>
            /\ k = Len(btrace)
            /\ bstack = <<>>
            /\ bcur.status = "error"
            /\ bcur.error = ErrorOutside(btrace[k])

\* The first required builder of W has failed in its _build(): the second
\* one was not built and W started no container.
C15_Witness ==
    /\ bcur.builder = "W"
    /\ bcur.status = "error"
    /\ bcur.error = "BuildError"
    /\ btrace[Len(btrace)].builder = "X"
    /\ btrace[Len(btrace)].parent = 1
    /\ BCount(1, "builder.build") = 1
    /\ BCount(1, "docker run") = 0

\* The deployment step of a builder has failed.
C15_WitnessStep ==
    /\ bcur.status = "error"
    /\ bcur.error = "DeploymentStepError"
    /\ btrace[Len(btrace)].ev = "deployment_step.raise"
    /\ btrace[Len(btrace)].inv = 1

(***************************************************************************)
(* C16, C17: the builder's own action                                      *)
(***************************************************************************)
\* The invocations that have returned normally, each with what is logged of it.
ReturnedInvocations == {btrace[k] : k \in {n \in DOMAIN btrace : btrace[n].ev = "return"}}

\* The container runs issued by invocation inv.
DockerRuns(inv) ==
    {btrace[k] : k \in {n \in DOMAIN btrace : btrace[n].inv = inv /\ btrace[n].ev = "docker run"}}

\* C16: when the deployment step runs in docker and the process is not
\* inside a container, build() re-invokes the same builder (by its NAME,
\* with the regenerated command line) in exactly one container run on the
\* deployment step's result image and returns without executing _build() in
\* the outer process.
C16_DispatchesIntoContainer ==
    /\ \A k \in DOMAIN btrace :
         LET e == btrace[k]
         IN  (IsolationNeeded(e.builder) /\ ~e.in_docker) => e.ev # "_build"
    /\ \A r \in ReturnedInvocations :
         (IsolationNeeded(r.builder) /\ ~r.in_docker) =>
             /\ BCount(r.inv, "docker run") = 1
             /\ \A d \in DockerRuns(r.inv) :
                  /\ d.image = result_image_name(BuilderTable[r.builder].DEPLOYMENT_STEP)
                  /\ d.image \in images
                  /\ SubSeq(d.args, 1, 3) = <<"python3", build_package_script_path,
                                              BuilderTable[r.builder].NAME>>
                  /\ \E c \in ReturnedInvocations :
                       /\ c.inv = d.child
                       /\ c.parent = r.inv
                       /\ c.builder = r.builder
                       /\ c.in_docker
                       /\ BCount(c.inv, "_build") = 1

\* Y, whose deployment step runs in docker, has been built through a
\* container of the step's result image.
C16_Witness ==
    /\ ~IN_DOCKER
    /\ bcur.builder = "Y"
    /\ bcur.status = "ok"
    /\ \E d \in DockerRuns(1) :
         /\ d.image = result_image_name("A6")
         /\ d.args = <<"python3", build_package_script_path, "y", "--install_type", "package">>
    /\ BCount(2, "_build") = 1

\* C17: when isolation is not needed (no deployment step, or a host-native
\* one) or the process is already inside a container, build() calls
\* _build() directly exactly once and issues no container run; inside a
\* container it also runs no deployment step and builds no required builder.
C17_BuildsDirectly ==
    /\ \A k \in DOMAIN btrace :
         LET e == btrace[k]
         IN  /\ (~IsolationNeeded(e.builder) \/ e.in_docker) =>
                  /\ e.ev # "docker run"
                  /\ BCount(e.inv, "_build") <= 1
             /\ e.in_docker => e.ev \notin {"deployment_step.run", "builder.build"}
    /\ \A r \in ReturnedInvocations :
         (~IsolationNeeded(r.builder) \/ r.in_docker) => BCount(r.inv, "_build") = 1

\* W, started inside a container, has only reset its output directory and
\* called _build().
C17_Witness ==
    /\ IN_DOCKER
    /\ bcur.builder = "W"
    /\ bcur.status = "ok"
    /\ [n \in DOMAIN btrace |-> btrace[n].ev] = <<"reset", "_build", "return">>

\* X, which has no deployment step, and V, whose step runs on the host,
\* have called _build() outside a container.
C17_WitnessHost ==
    /\ ~IN_DOCKER
    /\ bcur.builder = "V"
    /\ bcur.status = "ok"
    /\ BCount(1, "_build") = 1
    /\ \E r \in ReturnedInvocations : r.builder = "X" /\ BCount(r.inv, "_build") = 1

(***************************************************************************)
(* C18: the output directory                                               *)
(***************************************************************************)
\* C18: every invocation of build() clears and recreates its output
\* directory before anything else, so no file from an earlier invocation
\* (including a failed one) is present when the current action starts: the
\* first operation of an invocation is the reset, the directory is empty
\* when _build() or the container run is about to start, and afterwards it
\* holds no file of an earlier call.
C18_OutputDirectoryReset ==
    /\ \A k \in DOMAIN btrace :
         (\A n \in 1..(k - 1) : btrace[n].inv # btrace[k].inv) => btrace[k].ev = "reset"
    /\ \A n \in DOMAIN bstack :
         LET fr == bstack[n]
             files_left == out[BuilderTable[fr.builder].NAME]
         IN  /\ fr.pc \in {"_build", "docker_run"} => files_left = {}
             /\ fr.pc # "reset" => \A f \in files_left : f[1] # 0
    /\ \A r \in ReturnedInvocations :
         \A f \in out[BuilderTable[r.builder].NAME] : f[1] # 0

\* A call of X has failed part-way in _build(); the next call is about to
\* start _build() and the directory is empty again.
C18_Witness ==
    /\ BAtPc("_build")
    /\ BTop.builder = "X"
    /\ out["x"] = {}
    /\ \E k \in DOMAIN btrace :
         /\ btrace[k].inv = BTop.inv
         /\ btrace[k].ev = "reset"
         /\ OutFile(0, FALSE) \in btrace[k].removed

(***************************************************************************)
(* C19: the regenerated command line                                       *)
(***************************************************************************)
\* What one input adds to the command line.
Contribution(i, value) ==
    IF StartsWithStore_(i.action) THEN (IF Truthy(value) THEN <<i.name>> ELSE <<>>)
    ELSE IF value = "None" THEN <<>>
    ELSE <<i.name, value>>

\* C19: in the regenerated command line an input declared as a store_* flag
\* contributes its name alone and only when its value is truthy; an optional
\* input whose value is None contributes nothing; every other input
\* contributes its name followed by its value, in declared order.
C19_CommandLineRegenerated ==
    (regenerated.result # NoResult /\ ~regenerated.result.raised) =>
        LET INPUT == regenerated.INPUT
            input_values == regenerated.input_values
        IN  regenerated.result.command_args =
                <<"python3", build_package_script_path, regenerated.NAME>>
                \o Concat([k \in DOMAIN INPUT |-> Contribution(INPUT[k], input_values[k])])

\* A flag that is set and an input with a value, declared in this order.
C19_Witness ==
    /\ Len(regenerated.INPUT) = 2
    /\ regenerated.INPUT[1].action = "store_true"
    /\ regenerated.INPUT[2].name = "--tag"
    /\ regenerated.input_values = <<"True", "t">>
    /\ regenerated.result.command_args =
          <<"python3", build_package_script_path, "w", "--debug", "--tag", "t">>

\* A flag that is not set and an optional input without value add nothing.
C19_WitnessNothing ==
    /\ Len(regenerated.INPUT) = 2
    /\ regenerated.INPUT[1].action = "store_false"
    /\ regenerated.INPUT[2].name = "--tag"
    /\ regenerated.input_values = <<"False", "None">>
    /\ regenerated.result = [raised |-> FALSE,
                             command_args |-> <<"python3", build_package_script_path, "w">>]
    /\ regenerated.result # NoResult

(***************************************************************************)
(* C21: a failing step aborts the chain                                    *)
(***************************************************************************)
\* The step whose action was the last operation of process p.
LastStep(p) == trace[p][Len(trace[p])].step

\* Number of times the own action of step s was started by process p.
Actions(p, s) == Count(trace[p], s, "impl") + Count(trace[p], s, "script")

\* A step.run() of deploy() has raised and deploy() has not yet left.
StepRaised(p) ==
    /\ dstate.status = "running"
    /\ stack[p] = <<>>
    /\ dstate.k > 0
    /\ cur[p].status = "error"

\* run(): when the run() of a predecessor raises, the action of the step is
\* not executed; after deploy() failed no step after the failing one was called.
C21_Aborted ==
    /\ \A p \in Procs :
          (cur[p].status = "error" /\ LastStep(p) # cur[p].step) =>
              /\ LastStep(p) \in Chain(cur[p].step)
              /\ Actions(p, cur[p].step) = 0
    /\ dstate.status = "error" =>
          LET steps == Deployments[dstate.deployment].steps
          IN  /\ dtrace[Len(dtrace)] = <<"raise", steps[dstate.k]>>
              /\ \A j \in DOMAIN steps :
                    j > dstate.k =>
                      /\ <<"call", steps[j]>> \notin {dtrace[i] : i \in DOMAIN dtrace}
                      /\ \A p \in Procs : Actions(p, steps[j]) = 0

\* deploy(): the only thing that follows a step.run() that raised is the
\* exception leaving deploy(); no run() is called and nothing is executed.
C21_NothingAfterFailure ==
    \A p \in Procs :
        StepRaised(p) =>
            /\ dstate' = [dstate EXCEPT !.status = "error"]
            /\ UNCHANGED <<stack, cur, trace, images, cache>>

\* C21: when a step of a chain fails, the failure aborts the rest of the
\* chain: in deploy() no step declared after the failing one is run, and in
\* run() a failing predecessor prevents the step's own action from executing.
C21_FailureAbortsChain == []C21_Aborted /\ [][C21_NothingAfterFailure]_vars

\* The first step of a deployment failed: deploy() has raised and the second
\* step was never called.
C21_Witness ==
    /\ dstate.status = "error"
    /\ dtrace = << <<"call", "A6">>, <<"raise", "A6">> >>
    /\ cur[1].error = "DeploymentStepError"
    /\ Actions(1, "A6") = 1

\* The second step failed through its predecessor: run() of the second step
\* ran the first step again, whose script failed.
C21_WitnessPredecessor ==
    /\ dstate.status = "error"
    /\ dtrace = << <<"call", "A">>, <<"return", "A">>, <<"call", "B">>, <<"raise", "B">> >>
    /\ cur[1].step = "B"
    /\ LastStep(1) = "A"

C27_WitnessHost ==
    /\ dstate.status = "ok"
    /\ dstate.deployment = "D1"
    /\ Actions(1, "A") = 2
    /\ Actions(1, "B") = 1

(***************************************************************************)
(* C30: the directories of a step and its id                               *)
(***************************************************************************)
\* C30: in every reachable state the cache directory and the output
\* directory of a step are the ones derived from its current id, also when
\* the content of a tracked file changed after the step was constructed.
C30_DirectoriesFollowId ==
    \A s \in StepIds :
        /\ cache_directory[s] = id(s)
        /\ output_directory[s] = id(s)
        /\ cached_image_path(s) = <<id(s), result_image_name(s)>>

(***************************************************************************)
(* The registry of the deployments                                         *)
(***************************************************************************)
\* The names given to Deployment() and the base images.
RegistryNames == {"D1", "D6", "D7"}
RegistryImages == {None, "centos:6"}

\* Variant: the name is stored without looking it up first.
Deployment_init_overwrite(name, docker_image) ==
    /\ registered.object < MaxRegistrations
    /\ LET self == [serial |-> registered.object + 1, name |-> name,
                    base_docker_image |-> docker_image]
       IN  /\ ALL_DEPLOYMENTS' = (name :> self) @@ ALL_DEPLOYMENTS
           /\ registered' = [name |-> name, object |-> self.serial, raised |-> None,
                             before |-> ALL_DEPLOYMENTS]
    /\ UNCHANGED <<files, IN_CICD, base_docker_image, cache_directory,
                   output_directory, images, cache, active, stack, cur, prevRun,
                   trace, edited, last_edit, nruns, nedits>>
    /\ UNCHANGED <<dvars, bvars, intermediate, faults, store, failure>>

\* Deployment.__init__, lines 567-607: a new object, the serial-th one
\* constructed, is stored under its name, or ValueError is raised when the
\* name is a key of ALL_DEPLOYMENTS.
Deployment_init(name, docker_image) ==
    /\ registered.object < MaxRegistrations
    /\ LET self == [serial |-> registered.object + 1, name |-> name,
                    base_docker_image |-> docker_image]
       IN  IF name \in DOMAIN ALL_DEPLOYMENTS
           THEN /\ registered' = [name |-> name, object |-> self.serial,
                                  raised |-> "ValueError", before |-> ALL_DEPLOYMENTS]
                /\ UNCHANGED ALL_DEPLOYMENTS
           ELSE /\ ALL_DEPLOYMENTS' = (name :> self) @@ ALL_DEPLOYMENTS
                /\ registered' = [name |-> name, object |-> self.serial,
                                  raised |-> None, before |-> ALL_DEPLOYMENTS]
    /\ UNCHANGED <<files, IN_CICD, base_docker_image, cache_directory,
                   output_directory, images, cache, active, stack, cur, prevRun,
                   trace, edited, last_edit, nruns, nedits>>
    /\ UNCHANGED <<dvars, bvars, intermediate, faults, store, failure>>

\* get_deployment_by_name, lines 649-650.
get_deployment_by_name(name) == ALL_DEPLOYMENTS[name]

NextRegistry ==
    \E name \in RegistryNames, docker_image \in RegistryImages :
        Deployment_init(name, docker_image)

SpecRegistry == Init /\ [][NextRegistry]_vars

(***************************************************************************)
(* C22: a name is registered once                                          *)
(***************************************************************************)
\* C22: registering a second Deployment with a name that is already
\* registered fails with ValueError and the registry still maps that name
\* to the first Deployment; after any sequence of registrations each name of
\* the registry maps to exactly one Deployment, the one first given the name.
C22_NameRegisteredOnce ==
    /\ \A name \in DOMAIN ALL_DEPLOYMENTS :
          /\ get_deployment_by_name(name).name = name
          /\ \A other \in DOMAIN ALL_DEPLOYMENTS :
                get_deployment_by_name(other).serial = get_deployment_by_name(name).serial
                    => other = name
    /\ registered.object > 0 =>
          /\ \A name \in DOMAIN registered.before :
                /\ name \in DOMAIN ALL_DEPLOYMENTS
                /\ get_deployment_by_name(name) = registered.before[name]
          /\ IF registered.name \in DOMAIN registered.before
             THEN /\ registered.raised = "ValueError"
                  /\ ALL_DEPLOYMENTS = registered.before
                  /\ get_deployment_by_name(registered.name).serial < registered.object
             ELSE /\ registered.raised = None
                  /\ DOMAIN ALL_DEPLOYMENTS = DOMAIN registered.before \cup {registered.name}
                  /\ get_deployment_by_name(registered.name).serial = registered.object

\* A second Deployment was given a registered name: the first one is kept.
C22_Witness ==
    /\ registered.raised = "ValueError"
    /\ registered.object = 2
    /\ registered.name = "D6"
    /\ get_deployment_by_name("D6").serial = 1
    /\ get_deployment_by_name("D6").base_docker_image = "centos:6"

(***************************************************************************)
(* DeploymentStepError: the exception made of a failed action              *)
(***************************************************************************)
\* DeploymentStepError.DEFAULT_LAST_ERROR_LINES_NUMBER, line 66.
DEFAULT_LAST_ERROR_LINES_NUMBER == 30

\* A captured output is None, a str or bytes; its content is its lines, the
\* i-th line being i.  Bytes are valid UTF-8 or not.
Lines(n) == [i \in 1..n |-> i]

ErrorLengths ==
    {0, 1, DEFAULT_LAST_ERROR_LINES_NUMBER - 1, DEFAULT_LAST_ERROR_LINES_NUMBER,
     DEFAULT_LAST_ERROR_LINES_NUMBER + 1, MaxLines}

Texts ==
    {NoText}
    \cup {[kind |-> "str", lines |-> Lines(n), valid |-> TRUE] : n \in ErrorLengths}
    \cup {[kind |-> "bytes", lines |-> Lines(n), valid |-> v] :
            n \in ErrorLengths, v \in BOOLEAN}

\* 'stdout or ""', lines 69-70: None, "" and b"" become "".
or_empty(text) ==
    IF text.kind = "None" \/ text.lines = <<>>
    THEN [kind |-> "str", lines |-> <<>>, valid |-> TRUE]
    ELSE text

\* bytes.decode("utf-8"), lines 72-75: a str of the same lines; bytes that
\* are not UTF-8 raise UnicodeDecodeError.
decode(text) == IF text.kind = "bytes" THEN [text EXCEPT !.kind = "str"] ELSE text

\* Variant: all lines of the output go into the message.
last_lines_all(lines, add_list_lines) == lines

\* 'splitlines()[-add_list_lines:]', lines 80-81.
last_lines(lines, add_list_lines) ==
    IF Len(lines) <= add_list_lines THEN lines
    ELSE SubSeq(lines, Len(lines) - add_list_lines + 1, Len(lines))

\* DeploymentStepError.__init__, lines 68-84: the exception that leaves the
\* 'raise DeploymentStepError(...)' statement.
DeploymentStepError(stdout, stderr, add_list_lines) ==
    LET out1 == or_empty(stdout)
        err1 == or_empty(stderr)
    IN  IF (out1.kind = "bytes" /\ ~out1.valid) \/ (err1.kind = "bytes" /\ ~err1.valid)
        THEN [NoException EXCEPT !.type = "UnicodeDecodeError"]
        ELSE [type |-> "DeploymentStepError",
              stdout |-> decode(out1),
              stderr |-> decode(err1),
              message |-> [stdout |-> last_lines(decode(out1).lines, add_list_lines),
                           stderr |-> last_lines(decode(err1).lines, add_list_lines)]]

\* The script of a step failed on the host or in the docker build stage,
\* with some captured output.
InitError ==
    /\ InitSteps
    /\ dstate = NoDeploy
    /\ dtrace = <<>>
    /\ IN_DOCKER = FALSE
    /\ bstack = <<>>
    /\ bcur = NoBuild
    /\ btrace = <<>>
    /\ out = [n \in BuilderNames |-> {}]
    /\ ninv = 0
    /\ regenerated = NoRegeneration
    /\ ALL_DEPLOYMENTS = NoRegistry
    /\ registered = NoRegistration
    /\ intermediate = NoIntermediate
    /\ faults = {}
    /\ store = NoStore
    /\ \E origin \in {"_run_locally", "_run_in_docker_impl"} :
         \E stdout \in Texts, stderr \in Texts :
            failure = [origin |-> origin, stdout |-> stdout, stderr |-> stderr,
                       raised |-> NoException]

\* _run_locally, lines 485-486: the handler of subprocess.CalledProcessError.
run_locally_except ==
    /\ failure.origin = "_run_locally"
    /\ failure.raised = NoException
    /\ failure' = [failure EXCEPT !.raised =
                     DeploymentStepError(failure.stdout, failure.stderr,
                                         DEFAULT_LAST_ERROR_LINES_NUMBER)]
    /\ UNCHANGED <<files, IN_CICD, base_docker_image, cache_directory,
                   output_directory, images, cache, active, stack, cur, prevRun,
                   trace, edited, last_edit, nruns, nedits>>
    /\ UNCHANGED <<dvars, bvars, ALL_DEPLOYMENTS, registered, intermediate, faults, store>>

\* _run_in_docker_impl, lines 551-552: the handler of RunDockerBuildError.
run_in_docker_impl_except ==
    /\ failure.origin = "_run_in_docker_impl"
    /\ failure.raised = NoException
    /\ failure' = [failure EXCEPT !.raised =
                     DeploymentStepError(failure.stdout, failure.stderr,
                                         DEFAULT_LAST_ERROR_LINES_NUMBER)]
    /\ UNCHANGED <<files, IN_CICD, base_docker_image, cache_directory,
                   output_directory, images, cache, active, stack, cur, prevRun,
                   trace, edited, last_edit, nruns, nedits>>
    /\ UNCHANGED <<dvars, bvars, ALL_DEPLOYMENTS, registered, intermediate, faults, store>>

NextError == run_locally_except \/ run_in_docker_impl_except

SpecError == InitError /\ [][NextError]_vars

(***************************************************************************)
(* C23: what a failed action raises                                        *)
(***************************************************************************)
\* The content of a captured output: None and the empty output have none.
Content(text) == IF text.kind = "None" THEN <<>> ELSE text.lines

\* The exception keeps the whole output and its message has the last lines.
KeepsOutput(raised, stdout, stderr) ==
    /\ raised.stdout.lines = Content(stdout)
    /\ raised.stderr.lines = Content(stderr)
    /\ Len(raised.message.stdout) <= DEFAULT_LAST_ERROR_LINES_NUMBER
    /\ Len(raised.message.stderr) <= DEFAULT_LAST_ERROR_LINES_NUMBER
    /\ \E n \in 0..Len(Content(stdout)) :
          raised.stdout.lines = Lines(n) \o raised.message.stdout
    /\ \E n \in 0..Len(Content(stderr)) :
          raised.stderr.lines = Lines(n) \o raised.message.stderr
    /\ Len(Content(stdout)) >= DEFAULT_LAST_ERROR_LINES_NUMBER
          => Len(raised.message.stdout) = DEFAULT_LAST_ERROR_LINES_NUMBER
    /\ Len(Content(stderr)) >= DEFAULT_LAST_ERROR_LINES_NUMBER
          => Len(raised.message.stderr) = DEFAULT_LAST_ERROR_LINES_NUMBER

\* C23: a failure of a step's action surfaces as a DeploymentStepError that
\* keeps the full captured stdout and stderr and whose message contains at
\* most the last 30 lines of each; no other exception type reaches the
\* caller for an action failure.
C23_FailureIsDeploymentStepError ==
    failure.raised # NoException =>
        /\ failure.raised.type = "DeploymentStepError"
        /\ KeepsOutput(failure.raised, failure.stdout, failure.stderr)

\* What holds of the output that can be decoded: the exception is a
\* DeploymentStepError that keeps the output, with the last lines in its message.
C23_DecodableFailure ==
    (/\ failure.raised # NoException
     /\ failure.stdout.valid
     /\ failure.stderr.valid) =>
        /\ failure.raised.type = "DeploymentStepError"
        /\ KeepsOutput(failure.raised, failure.stdout, failure.stderr)

\* A failure with more lines of output than the message takes.
C23_WitnessDecodable ==
    /\ failure.raised.type = "DeploymentStepError"
    /\ failure.stdout.kind = "bytes"
    /\ Len(failure.stdout.lines) = MaxLines
    /\ failure.stderr.kind = "None"
    /\ Head(failure.raised.message.stdout) = MaxLines - DEFAULT_LAST_ERROR_LINES_NUMBER + 1

(***************************************************************************)
(* The cache of a step: _save_to_cache and _restore_from_cache             *)
(***************************************************************************)
\* shutil.copytree(src, dst): dst must not exist.
copytree(fs, src, dst) ==
    IF fs[dst] # Absent
    THEN [fs |-> fs, raised |-> "FileExistsError"]
    ELSE [fs |-> [fs EXCEPT ![dst] = fs[src]], raised |-> None]

\* shutil.copy2(src, dst) for a dst that is a file or does not exist.
copy2(fs, src, dst) == [fs |-> [fs EXCEPT ![dst] = fs[src]], raised |-> None]

\* 'self.cache_directory / key', lines 311 and 327.
full_path(key) == <<"cache", key>>

\* The path a relative name stands for: an entry of the working directory.
relative(key) == <<"cwd", key>>

\* DeploymentStep._save_to_cache, lines 321-331.  The file is copied to
\* 'key', line 331, not to full_path.
save_to_cache(key, path) ==
    /\ store.nops < MaxCacheOps
    /\ LET copied == IF store.fs[path].kind = "dir"
                     THEN copytree(store.fs, path, full_path(key))
                     ELSE copy2(store.fs, path, relative(key))
       IN  store' = [fs |-> copied.fs,
                     before |-> store.fs,
                     saved |-> IF copied.raised = None
                               THEN [store.saved EXCEPT ![key] = store.fs[path]]
                               ELSE store.saved,
                     last |-> [op |-> "save", key |-> key, path |-> path,
                               result |-> None, raised |-> copied.raised],
                     nops |-> store.nops + 1]
    /\ UNCHANGED <<files, IN_CICD, base_docker_image, cache_directory,
                   output_directory, images, cache, active, stack, cur, prevRun,
                   trace, edited, last_edit, nruns, nedits>>
    /\ UNCHANGED <<dvars, bvars, ALL_DEPLOYMENTS, registered, intermediate, faults, failure>>

\* DeploymentStep._restore_from_cache, lines 304-319.
restore_from_cache(key, path) ==
    /\ store.nops < MaxCacheOps
    /\ LET found == store.fs[full_path(key)] # Absent
           copied == IF ~found THEN [fs |-> store.fs, raised |-> None]
                     ELSE IF store.fs[full_path(key)].kind = "dir"
                     THEN copytree(store.fs, full_path(key), path)
                     ELSE copy2(store.fs, full_path(key), path)
       IN  store' = [fs |-> copied.fs,
                     before |-> store.fs,
                     saved |-> store.saved,
                     last |-> [op |-> "restore", key |-> key, path |-> path,
                               result |-> IF copied.raised # None THEN None
                                          ELSE IF found THEN "True" ELSE "False",
                               raised |-> copied.raised],
                     nops |-> store.nops + 1]
    /\ UNCHANGED <<files, IN_CICD, base_docker_image, cache_directory,
                   output_directory, images, cache, active, stack, cur, prevRun,
                   trace, edited, last_edit, nruns, nedits>>
    /\ UNCHANGED <<dvars, bvars, ALL_DEPLOYMENTS, registered, intermediate, faults, failure>>

NextCache ==
    \/ \E key \in CacheKeys, path \in SourcePaths : save_to_cache(key, path)
    \/ \E key \in CacheKeys : restore_from_cache(key, DestPath)

SpecCache == Init /\ [][NextCache]_vars

(***************************************************************************)
(* C28: the round trip of the cache                                        *)
(***************************************************************************)
\* C28: after _save_to_cache(key, path) for a file or for a directory,
\* _restore_from_cache(key, dest) into a free dest returns True and dest
\* holds the saved content; for a key that was never saved it returns False
\* and leaves dest untouched; saved entries live under the step's own cache
\* directory.
C28_CacheRoundTrip ==
    /\ \A key \in CacheKeys :
          store.saved[key] # Absent => store.fs[full_path(key)] # Absent
    /\ (store.last.op = "restore" /\ store.before[DestPath] = Absent) =>
          IF store.saved[store.last.key] # Absent
          THEN /\ store.last.result = "True"
               /\ store.fs[DestPath] = store.saved[store.last.key]
          ELSE /\ store.last.result = "False"
               /\ store.fs[DestPath] = store.before[DestPath]

\* What holds of a directory: saved once under a key, it is restored.
C28_DirectoryRoundTrip ==
    (/\ store.last.op = "restore"
     /\ store.before[DestPath] = Absent
     /\ store.saved[store.last.key].kind = "dir") =>
        /\ store.last.result = "True"
        /\ store.fs[DestPath] = store.saved[store.last.key]
        /\ store.fs[full_path(store.last.key)] = store.saved[store.last.key]

\* A directory was saved and restored.
C28_WitnessDirectory ==
    /\ store.last.op = "restore"
    /\ store.last.result = "True"
    /\ store.saved[store.last.key].kind = "dir"
    /\ store.fs[DestPath] = [kind |-> "dir", data |-> 2]

(***************************************************************************)
(* _run_in_docker_impl, command by command                                 *)
(*                                                                         *)
(* The container and the image named 'agent-build-deployment-step-         *)
(* intermediate' are shared by all processes that use the docker daemon.   *)
(* A command of the try block fails on its own (ok = FALSE: the daemon,    *)
(* the disk, the script) or because of what it finds.  common.run_command  *)
(* raises subprocess.CalledProcessError for a command that fails, as the   *)
(* handler of lines 485-486 shows.  The frame keeps the exception in       *)
(* flight (pending) while the finally block runs.                          *)
(***************************************************************************)
\* The unchanged variables of a command of _run_in_docker_impl.
ImplUnchanged ==
    /\ UNCHANGED <<files, IN_CICD, base_docker_image, cache_directory,
                   output_directory, cache, active, prevRun, edited, last_edit,
                   nruns, nedits>>
    /\ UNCHANGED <<dvars, bvars, ALL_DEPLOYMENTS, registered, store, failure>>

\* The try block is left with an exception: the finally block follows.
Fail(p, error, ok) ==
    /\ stack' = [stack EXCEPT ![p][Len(stack[p])] =
                    [@ EXCEPT !.pc = "finally_rm", !.pending = error]]
    /\ faults' = IF ok THEN faults ELSE faults \cup {p}

\* Line 507: 'docker rm -f' of the intermediate container, which removes it
\* when it exists.
docker_rm_f(p) ==
    /\ AtPc(p, "impl")
    /\ Log(p, Top(p).step, "impl")
    /\ intermediate' = [intermediate EXCEPT !.container = FALSE]
    /\ stack' = [stack EXCEPT ![p][Len(stack[p])].pc = "create"]
    /\ UNCHANGED <<images, cur, faults>>
    /\ ImplUnchanged

\* Lines 512-522: 'docker create --name <intermediate> <base image>'.  It
\* needs the base image and a free container name.
docker_create(p, ok) ==
    /\ AtPc(p, "create")
    /\ LET s == Top(p).step
       IN  IF /\ ok
              /\ base_docker_image[s] \in PublicImages \cup images
              /\ ~intermediate.container
           THEN /\ intermediate' = [intermediate EXCEPT !.container = TRUE]
                /\ stack' = [stack EXCEPT ![p][Len(stack[p])].pc = "cp"]
                /\ UNCHANGED faults
           ELSE /\ Fail(p, "CalledProcessError", ok)
                /\ UNCHANGED intermediate
    /\ UNCHANGED <<images, cur, trace>>
    /\ ImplUnchanged

\* Lines 525-534: 'docker cp' of the tracked files into the container.
docker_cp(p, ok) ==
    /\ AtPc(p, "cp")
    /\ IF ok /\ intermediate.container
       THEN /\ stack' = [stack EXCEPT ![p][Len(stack[p])].pc = "commit"]
            /\ UNCHANGED faults
       ELSE Fail(p, "CalledProcessError", ok)
    /\ UNCHANGED <<images, cur, trace, intermediate>>
    /\ ImplUnchanged

\* Lines 537-539: 'docker commit' of the container as the intermediate image.
docker_commit(p, ok) ==
    /\ AtPc(p, "commit")
    /\ IF ok /\ intermediate.container
       THEN /\ intermediate' = [intermediate EXCEPT !.image = TRUE]
            /\ stack' = [stack EXCEPT ![p][Len(stack[p])].pc = "build_stage"]
            /\ UNCHANGED faults
       ELSE /\ Fail(p, "CalledProcessError", ok)
            /\ UNCHANGED intermediate
    /\ UNCHANGED <<images, cur, trace>>
    /\ ImplUnchanged

\* Variant: a failure of the build stage leaves the function at once.
build_stage_no_finally(p, script_ok) ==
    /\ AtPc(p, "build_stage")
    /\ LET s == Top(p).step
       IN  IF script_ok /\ intermediate.image
           THEN /\ images' = images \cup {result_image_name(s)}
                /\ stack' = [stack EXCEPT ![p][Len(stack[p])].pc = "finally_rm"]
                /\ UNCHANGED <<faults, cur>>
           ELSE /\ Raise(p, "DeploymentStepError")
                /\ faults' = IF script_ok THEN faults ELSE faults \cup {p}
                /\ UNCHANGED images
    /\ UNCHANGED <<trace, intermediate>>
    /\ ImplUnchanged

\* Lines 545-553: build_stage runs the script in an image built from the
\* intermediate image and names the result; RunDockerBuildError becomes
\* DeploymentStepError.
build_stage(p, script_ok) ==
    /\ AtPc(p, "build_stage")
    /\ LET s == Top(p).step
       IN  IF script_ok /\ intermediate.image
           THEN /\ images' = images \cup {result_image_name(s)}
                /\ stack' = [stack EXCEPT ![p][Len(stack[p])].pc = "finally_rm"]
                /\ UNCHANGED faults
           ELSE /\ Fail(p, "DeploymentStepError", script_ok)
                /\ UNCHANGED images
    /\ UNCHANGED <<cur, trace, intermediate>>
    /\ ImplUnchanged

\* Line 557, in the finally block: 'docker rm -f' of the container.
finally_docker_rm(p) ==
    /\ AtPc(p, "finally_rm")
    /\ intermediate' = [intermediate EXCEPT !.container = FALSE]
    /\ stack' = [stack EXCEPT ![p][Len(stack[p])].pc = "finally_image_rm"]
    /\ UNCHANGED <<images, cur, trace, faults>>
    /\ ImplUnchanged

\* Line 558, in the finally block: 'docker image rm -f' of the image.  For
\* an image that does not exist docker exits with 0 or with 1, by its
\* version (tolerant).  Then the exception in flight goes on, or lines
\* 279-287 of _run_in_docker follow.
finally_docker_image_rm(p, tolerant) ==
    /\ AtPc(p, "finally_image_rm")
    /\ intermediate' = [intermediate EXCEPT !.image = FALSE]
    /\ IF ~intermediate.image /\ ~tolerant
       THEN Raise(p, "CalledProcessError")
       ELSE IF Top(p).pending # None
       THEN Raise(p, Top(p).pending)
       ELSE IF IN_CICD /\ Top(p).save_to_cache
       THEN /\ stack' = [stack EXCEPT ![p][Len(stack[p])].pc = "save"]
            /\ UNCHANGED cur
       ELSE Return(p)
    /\ UNCHANGED <<images, trace, faults>>
    /\ ImplUnchanged

\* The steps that are run command by command: a docker chain and, next to
\* it, a host-native chain.
DockerChain == {"A6", "B6"}
CommandSteps == DockerChain \cup {"A", "B"}

NextDocker ==
    \/ \E p \in Procs, s \in CommandSteps : StartRun(p, s)
    \/ \E p \in Procs : run(p)
    \/ \E p \in Procs : docker_images_q(p)
    \/ \E p \in Procs : cached_image_is_file(p)
    \/ \E p \in Procs : docker_load(p)
    \/ \E p \in Procs : docker_rm_f(p)
    \/ \E p \in Procs, ok \in BOOLEAN : docker_create(p, ok)
    \/ \E p \in Procs, ok \in BOOLEAN : docker_cp(p, ok)
    \/ \E p \in Procs, ok \in BOOLEAN : docker_commit(p, ok)
    \/ \E p \in Procs, ok \in BOOLEAN : build_stage(p, ok)
    \/ \E p \in Procs : finally_docker_rm(p)
    \/ \E p \in Procs, tolerant \in BOOLEAN : finally_docker_image_rm(p, tolerant)
    \/ \E p \in Procs : save_docker_image(p)
    \/ \E p \in Procs, ok \in BOOLEAN : run_locally(p, ok)

\* One process.
SpecDocker == Init /\ [][NextDocker]_vars

NextConcurrent ==
    \/ \E p \in Procs, s \in DockerChain : StartRun(p, s)
    \/ \E p \in Procs : run(p)
    \/ \E p \in Procs : docker_images_q(p)
    \/ \E p \in Procs : cached_image_is_file(p)
    \/ \E p \in Procs : docker_load(p)
    \/ \E p \in Procs : docker_rm_f(p)
    \/ \E p \in Procs, ok \in BOOLEAN : docker_create(p, ok)
    \/ \E p \in Procs, ok \in BOOLEAN : docker_cp(p, ok)
    \/ \E p \in Procs, ok \in BOOLEAN : docker_commit(p, ok)
    \/ \E p \in Procs, ok \in BOOLEAN : build_stage(p, ok)
    \/ \E p \in Procs : finally_docker_rm(p)
    \/ \E p \in Procs, tolerant \in BOOLEAN : finally_docker_image_rm(p, tolerant)
    \/ \E p \in Procs : save_docker_image(p)

\* Two processes that use the same docker daemon and the same cache.
InitConcurrent ==
    /\ files = InitFiles
    /\ IN_CICD \in BOOLEAN
    /\ base_docker_image =
         [s \in StepIds |->
            IF StepTable[s].previous \in StepIds
            THEN result_image_name(StepTable[s].previous)
            ELSE ImageName(StepTable[s].previous)]
    /\ cache_directory = [s \in StepIds |-> id(s)]
    /\ output_directory = [s \in StepIds |-> id(s)]
    /\ images = {}
    /\ cache = {}
    /\ active = Procs
    /\ stack = [p \in Procs |-> <<>>]
    /\ cur = [p \in Procs |-> NoCall]
    /\ prevRun = [p \in Procs |-> NoPrev]
    /\ trace = [p \in Procs |-> <<>>]
    /\ edited = {}
    /\ last_edit = [path |-> NoPath, checksum |-> [s \in StepIds |-> checksum(s)]]
    /\ nruns = 0
    /\ nedits = 0
    /\ dstate = NoDeploy
    /\ dtrace = <<>>
    /\ IN_DOCKER = FALSE
    /\ InitBuilders

SpecConcurrent == InitConcurrent /\ [][NextConcurrent]_vars

(***************************************************************************)
(* C29: the intermediate container and image are removed                   *)
(***************************************************************************)
\* The positions inside the try and finally blocks of _run_in_docker_impl.
ImplPcs == {"create", "cp", "commit", "build_stage", "finally_rm", "finally_image_rm"}

\* Process p is inside _run_in_docker_impl.
InImpl(p) == \E i \in DOMAIN stack[p] : stack[p][i].pc \in ImplPcs \cup {"impl"}

\* No process is inside _run_in_docker_impl: nothing named
\* 'agent-build-deployment-step-intermediate' exists.
C29_NothingRemains ==
    (\A p \in Procs : ~InImpl(p)) => intermediate = NoIntermediate

\* The finally block ends after a failure of the build stage: the caller
\* gets DeploymentStepError.
C29_BuildFailureRaised ==
    \A p \in Procs :
        (/\ AtPc(p, "finally_image_rm")
         /\ Top(p).pending = "DeploymentStepError"
         /\ stack'[p] # stack[p]) =>
            /\ stack'[p] = <<>>
            /\ cur'[p].status = "error"
            /\ cur'[p].error = "DeploymentStepError"

C29_WitnessCreate ==
    /\ cur[1].status = "error"
    /\ cur[1].error = "CalledProcessError"
    /\ 1 \in faults
    /\ intermediate = NoIntermediate

\* The run returned.
C29_WitnessReturned ==
    /\ cur[1].status = "ok"
    /\ Actions(1, "B6") = 1
    /\ intermediate = NoIntermediate

(***************************************************************************)
(* C24: a failed action is not retried                                     *)
(***************************************************************************)
\* C24: within one call of run() the own action of a step is started at
\* most once; when it fails, the failure is the last thing the call does:
\* the error leaves every frame and reaches the caller, and no image of the
\* step is saved to the cache.
C24_FailedActionNotRetried ==
    \A p \in Procs :
        /\ \A s \in StepIds : Actions(p, s) <= 1
        /\ cur[p].status = "error" =>
              /\ stack[p] = <<>>
              /\ cur[p].error \in {"DeploymentStepError", "CalledProcessError"}
              /\ trace[p][Len(trace[p])].ev \in {"impl", "script"}
              /\ Actions(p, LastStep(p)) = 1
              /\ Count(trace[p], LastStep(p), "save") = 0
              /\ (IN_CICD /\ runs_in_docker(LastStep(p)))
                    => cached_image_path(LastStep(p)) \notin cache

\* In CI/CD the action of a docker step, whose image would have been saved,
\* failed.
C24_Witness ==
    /\ IN_CICD
    /\ cur[1].status = "error"
    /\ cur[1].step = "A6"
    /\ cur[1].error = "DeploymentStepError"
    /\ Actions(1, "A6") = 1

\* The script of a host-native step failed.
C24_WitnessHost ==
    /\ cur[1].status = "error"
    /\ cur[1].step = "A"
    /\ Actions(1, "A") = 1

(***************************************************************************)
(* C26: two processes run the same docker step                             *)
(***************************************************************************)
\* Both processes called run() of the same step when neither its image nor
\* its cache file existed, no command failed on its own, and both calls
\* have ended.
BothRan ==
    /\ cur[1].step \in DockerChain
    /\ cur[2].step = cur[1].step
    /\ cur[1].fresh /\ cur[2].fresh
    /\ faults = {}
    /\ cur[1].status # "running" /\ cur[2].status # "running"

\* C26: for every interleaving of two run() calls of two processes on the
\* same step id, starting with no image and no cache entry, both calls
\* complete without error and an image named with the id exists afterwards.
C26_ConcurrentRunsComplete ==
    BothRan =>
        /\ cur[1].status = "ok"
        /\ cur[2].status = "ok"
        /\ result_image_name(cur[1].step) \in images

\* Some interleaving is harmless: both calls returned.
C26_WitnessBothOk ==
    /\ BothRan
    /\ cur[1].status = "ok"
    /\ cur[2].status = "ok"
    /\ Actions(1, cur[1].step) = 1
    /\ Actions(2, cur[2].step) = 1

(***************************************************************************)
(* C25: the self-dispatch of a builder does not loop                       *)
(***************************************************************************)
\* The invocations started in a container by a 'docker run' of build().
InContainer == {btrace[k].child : k \in {j \in DOMAIN btrace : btrace[j].ev = "docker run"}}

\* The container carries the flag; an invocation in a container does
\* nothing but reset its output directory and call _build(); at most one
\* invocation waits for its container.
C25_NoNestedDispatch ==
    /\ \A k \in DOMAIN btrace :
          /\ btrace[k].ev = "docker run" =>
                /\ common_IN_DOCKER(btrace[k].env)
                /\ btrace[k].inv \notin InContainer
          /\ btrace[k].inv \in InContainer =>
                /\ btrace[k].in_docker
                /\ btrace[k].ev \in {"reset", "_build", "_build.raise", "return"}
    /\ Cardinality({i \in DOMAIN bstack : bstack[i].pc = "wait_docker_run"}) <= 1
    /\ \A i \in DOMAIN bstack :
          bstack[i].inv \in InContainer =>
              /\ i = Len(bstack)
              /\ bstack[i].in_docker
              /\ bstack[i].pc \in {"reset", "_build"}

\* C25: the container started by build() carries AGENT_BUILD_IN_DOCKER=1, so
\* the inner invocation of build() executes _build() directly and issues no
\* further container run; the nesting depth of the dispatch is at most one,
\* and build() terminates when the external actions and the required
\* builders terminate.
C25_DispatchDoesNotLoop ==
    /\ []C25_NoNestedDispatch
    /\ (bcur.status = "running" ~> bcur.status \in {"ok", "error"})

\* A build() dispatched into a container, where _build() ran, and returned.
C25_Witness ==
    /\ bcur.status = "ok"
    /\ \E k \in DOMAIN btrace :
          /\ btrace[k].ev = "_build"
          /\ btrace[k].inv \in InContainer
          /\ btrace[k].parent = 1

====
